---- MODULE Spec2Model ----
(***************************************************************************)
(* Model of the merge-conflict-assistant language server.                  *)
(*                                                                         *)
(*   src/src/parser.rs : the marker scanner (Parser::parse) and the        *)
(*                       Conflict / ConflictRegion types                   *)
(*   src/src/server.rs : the document store, the change applier, the       *)
(*                       diagnostics decision and the dispatcher / worker  *)
(*                       threads                                           *)
(*   src/src/lib/parser.rs : the line-by-line state-machine parser (parse) *)
(*                       and its MergeConflict / ConflictRegion types      *)
(*                                                                         *)
(* A Rust &str is a sequence of UTF-8 bytes.  A text is modelled as a      *)
(* sequence of bytes; an ASCII byte is written as the one-character string *)
(* of its character ("<", "a", "\n"), and the two bytes of the two-byte    *)
(* character U+00E9 are written "C3" (lead byte) and "A9" (continuation    *)
(* byte).  Offsets are 0-based as in the code: the byte at offset i of s   *)
(* is s[i + 1].                                                            *)
(*                                                                         *)
(* Seven specifications share the module:                                  *)
(*   Spec       the server: dispatcher thread and reparse worker threads   *)
(*   SpecScans  the same server, each worker thread carrying as history    *)
(*              the scan of the content its event left                     *)
(*   SpecParse  Parser::parse and parse applied to a bounded set of texts  *)
(*   SpecApply  apply_changes applied to bounded contents and edit batches *)
(*   SpecActions conflict_as_code_actions and prepare_diagnostics applied  *)
(*              to the conflicts scanned from bounded contents             *)
(*   SpecRange  Conflict::is_in_range applied to conflicts and bounded     *)
(*              request ranges                                             *)
(*   SpecLocks  the lock and unlock steps of the dispatcher thread and of  *)
(*              the worker threads on the documents and sender mutexes     *)
(***************************************************************************)
EXTENDS Integers, Sequences, FiniteSets, TLC

VARIABLES
    documents,      \* ServerState.documents: HashMap<Uri, DocumentState>
    threads,        \* the reparse worker threads spawned by handle_message and not yet finished
    outbound,       \* the messages sent on ServerState.sender, in order
    running,        \* FALSE once the dispatcher thread has panicked
    received,       \* number of inbound messages taken from connection.receiver
    shutdown_requested, \* ServerState.shutdown_requested
    ended,          \* "no" while the loop of real_main_loop iterates, "closed" once the
                    \* receiver is exhausted, "error" once handle_message returned Err
    lock,           \* the Mutex of ServerState.documents: "free", or "worker" while a
                    \* reparse worker thread holds its guard
    reply,          \* the local `reply` of handle_message between the return of
                    \* on_request and the send: the message to send, if any (with,
                    \* as history, the record of the call that returned it)
    folded,         \* history: per URI, the content given by the open event that created
                    \* the entry with the edit batches of the change events handled
                    \* since folded over it in arrival order
    closes,         \* history: per URI, the number of close events processed
    lastCall,       \* history: the last handler call, its inputs and what it returned
    recording,      \* history: TRUE when the threads record the scan of the content
                    \* their event left (SpecScans); constant along a behaviour
    p_text,         \* SpecParse: the text given to Parser::parse
    p_out,          \* SpecParse: what Parser::parse returned
    l_out,          \* SpecParse: what parse of src/lib/parser.rs returned
    a_content,      \* SpecApply: the content given to apply_changes
    a_changes,      \* SpecApply: the edit batch given to apply_changes
    a_out,          \* SpecApply: what apply_changes returned
    c_content,      \* SpecActions: the content of the document
    c_version,      \* SpecActions: the stored version of the document
    c_out,          \* SpecActions: per scanned conflict, what conflict_as_code_actions returned
    c_note,         \* SpecActions: what prepare_diagnostics returned
    r_conflict,     \* SpecRange: the conflict is_in_range is called on
    r_range,        \* SpecRange: the range given to is_in_range
    r_checks,       \* SpecRange: the build has overflow checks (debug) or not (release)
    r_out,          \* SpecRange: what is_in_range returned
    k_dispatcher,   \* SpecLocks: the position of the dispatcher thread in handle_message
    k_workers,      \* SpecLocks: the position of every worker thread in its closure
    k_documents,    \* SpecLocks: the thread that holds the guard of ServerState.documents
    k_sender,       \* SpecLocks: the thread that holds the guard of ServerState.sender
    k_poisoned,     \* SpecLocks: the documents mutex is poisoned
    k_received      \* SpecLocks: number of inbound messages taken

vars == <<documents, threads, outbound, running, received, shutdown_requested, ended,
          lock, reply, folded, closes, lastCall, recording,
          p_text, p_out, l_out, a_content, a_changes, a_out, c_content, c_version, c_out, c_note,
          r_conflict, r_range, r_checks, r_out,
          k_dispatcher, k_workers, k_documents, k_sender, k_poisoned, k_received>>

serverVars == <<documents, threads, outbound, running, received, shutdown_requested, ended,
                lock, reply, folded, closes, lastCall, recording>>
parseVars == <<p_text, p_out, l_out>>
applyVars == <<a_content, a_changes, a_out>>
actionVars == <<c_content, c_version, c_out, c_note>>
rangeVars == <<r_conflict, r_range, r_checks, r_out>>
lockVars == <<k_dispatcher, k_workers, k_documents, k_sender, k_poisoned, k_received>>

(***************************************************************************)
(* Option<T>                                                               *)
(***************************************************************************)
None == [some |-> FALSE, val |-> <<>>]

Some(v) == [some |-> TRUE, val |-> v]

(***************************************************************************)
(* Bytes and strings                                                       *)
(***************************************************************************)
NL == "\n"

\* length of every marker token: the literal 7 of `as_str()[7..]`
MarkerLen == 7

\* UTF-8 continuation bytes (0x80..0xBF) of the modelled alphabet
IsContinuation(b) == b = "A9"

\* str::is_char_boundary
is_char_boundary(s, i) ==
    \/ i = 0
    \/ i = Len(s)
    \/ i > 0 /\ i < Len(s) /\ ~IsContinuation(s[i + 1])

\* char::is_whitespace on the modelled alphabet
IsWhitespace(b) == b \in {" ", "\t", "\n", "\r"}

\* s[from..to] with 0-based byte offsets, to exclusive
Slice(s, from, to) == SubSeq(s, from + 1, to)

Rep(b, n) == [i \in 1..n |-> b]

\* the ascending sequence of the elements of a finite set of integers
RECURSIVE SortedSeq(_)
SortedSeq(S) ==
    IF S = {} THEN <<>>
    ELSE LET m == CHOOSE x \in S : \A y \in S : x <= y
         IN <<m>> \o SortedSeq(S \ {m})

Min(a, b) == IF a <= b THEN a ELSE b

\* str::trim: strip leading and trailing whitespace
trim(s) ==
    LET keep == {i \in 1..Len(s) : ~IsWhitespace(s[i])}
    IN IF keep = {} THEN <<>>
       ELSE LET lo == CHOOSE i \in keep : \A j \in keep : i <= j
                hi == CHOOSE i \in keep : \A j \in keep : j <= i
            IN SubSeq(s, lo, hi)

(***************************************************************************)
(* src/src/parser.rs                                                       *)
(***************************************************************************)

\* impl From<(u32, u32, &str)> for ConflictRegion
ConflictRegion(start, end, name) ==
    [start |-> start, end |-> end,
     name |-> IF name = <<>> THEN None ELSE Some(name)]

\* Conflict::new
Conflict_new(ours, theirs, last_char) ==
    [ours |-> ConflictRegion(ours[1], ours[2], ours[3]),
     theirs |-> ConflictRegion(theirs[1], theirs[2], theirs[3]),
     ancestor |-> None,
     last_char |-> last_char]

\* Conflict::new_with_ancestor with the ancestor region run to the end marker
Conflict_new_with_ancestor_to_end(ours, theirs, ancestor, last_char) ==
    [ours |-> ConflictRegion(ours[1], ours[2], ours[3]),
     theirs |-> ConflictRegion(theirs[1], theirs[2], theirs[3]),
     ancestor |-> Some(ConflictRegion(ancestor[1], theirs[2], ancestor[3])),
     last_char |-> last_char]

\* Conflict::new_with_ancestor
Conflict_new_with_ancestor(ours, theirs, ancestor, last_char) ==
    [ours |-> ConflictRegion(ours[1], ours[2], ours[3]),
     theirs |-> ConflictRegion(theirs[1], theirs[2], theirs[3]),
     ancestor |-> Some(ConflictRegion(ancestor[1], ancestor[2], ancestor[3])),
     last_char |-> last_char]

\* Regex::find_iter for the pattern (?m)^TTTTTTT.*$ where T is the byte tok:
\* the matches, in text order, as [start, end) byte offsets.  ^ matches at
\* offset 0 and after every "\n"; .* runs to the next "\n" or the end of text.
find_iter(tok, text) ==
    LET n == Len(text)
        starts == {p \in 0..(n - MarkerLen) :
                      /\ (p = 0 \/ text[p] = NL)
                      /\ \A i \in 1..MarkerLen : text[p + i] = tok}
        lineEnd(p) == LET nls == {q \in (p + MarkerLen)..(n - 1) : text[q + 1] = NL}
                      IN IF nls = {} THEN n
                         ELSE CHOOSE q \in nls : \A r \in nls : q <= r
        ss == SortedSeq(starts)
    IN [k \in 1..Len(ss) |-> [start |-> ss[k], end |-> lineEnd(ss[k])]]

\* text.chars().enumerate().filter_map(.. c == '\n' ..): the CHARACTER index
\* of every newline, i.e. its byte offset less the continuation bytes before it
newlines_of(text) ==
    LET charIndex(q) == q - Cardinality({j \in 1..q : IsContinuation(text[j])})
    IN SortedSeq({charIndex(q) : q \in {r \in 0..(Len(text) - 1) : text[r + 1] = NL}})

\* line_from_match!: newlines.binary_search(&pos), Ok(i) and Err(i) both giving i.
\* On a strictly ascending table both are the number of entries less than pos.
line_from_match(newlines, pos) ==
    Cardinality({i \in 1..Len(newlines) : newlines[i] < pos})

\* Parser::parse: the conflicts of text (the Vec inside Ok(Some(..)))
Parse(text) ==
    LET ours_matches == find_iter("<", text)
        theirs_matches == find_iter("=", text)
        ancestor_matches == find_iter("|", text)
        marker_matches == find_iter(">", text)
        newlines == newlines_of(text)
        \* izip! stops with its shortest iterator; the ancestor iterator is
        \* chained with an endless repeat(None)
        count == Min(Len(ours_matches), Min(Len(theirs_matches), Len(marker_matches)))
        as_str(m) == Slice(text, m.start, m.end)
        name_of(m) == trim(Slice(text, m.start + MarkerLen, m.end))
        one(k) ==
            LET ours == ours_matches[k]
                theirs == theirs_matches[k]
                marker == marker_matches[k]
                ours_start == line_from_match(newlines, ours.start)
                theirs_start == line_from_match(newlines, theirs.start)
                marker_end == line_from_match(newlines, marker.end)
            IN IF k <= Len(ancestor_matches)
               THEN LET ancestor == ancestor_matches[k]
                        ancestor_start == line_from_match(newlines, ancestor.start)
                    IN Conflict_new_with_ancestor(
                           <<ours_start, ancestor_start, name_of(ours)>>,
                           <<theirs_start, marker_end, name_of(marker)>>,
                           <<ancestor_start, theirs_start, name_of(ancestor)>>,
                           Len(as_str(marker)))
               ELSE Conflict_new(
                           <<ours_start, theirs_start, name_of(ours)>>,
                           <<theirs_start, marker_end, name_of(marker)>>,
                           Len(as_str(marker)))
    IN [k \in 1..count |-> one(k)]

(***************************************************************************)
(* src/src/lib/parser.rs: the state-machine parser                         *)
(***************************************************************************)
\* anyhow::Result<T>: Ok(v), or Err (the message is not modelled)
Ok(v) == [err |-> FALSE, val |-> v]

Err == [err |-> TRUE, val |-> <<>>]

\* the line yielded by str::lines for a piece that ended with "\n": the piece
\* less one trailing "\r"
strip_cr(line) ==
    IF line # <<>> /\ line[Len(line)] = "\r" THEN SubSeq(line, 1, Len(line) - 1) ELSE line

RECURSIVE lines(_)
\* str::lines: the pieces of text ended by "\n", each less its "\n" and less
\* a "\r" before it, then the rest of the text when it is not empty
lines(text) ==
    IF text = <<>> THEN <<>>
    ELSE LET nls == {q \in 1..Len(text) : text[q] = NL}
         IN IF nls = {} THEN <<text>>
            ELSE LET q == CHOOSE x \in nls : \A y \in nls : x <= y
                 IN <<strip_cr(SubSeq(text, 1, q - 1))>> \o lines(SubSeq(text, q + 1, Len(text)))

\* str::strip_prefix of seven bytes tok, then map(str::trim)
strip_prefix_trim(line, tok) ==
    IF Len(line) >= MarkerLen /\ \A i \in 1..MarkerLen : line[i] = tok
    THEN Some(trim(SubSeq(line, MarkerLen + 1, Len(line))))
    ELSE None

\* the literal "=======" a line is compared with
TheirsToken == Rep("=", MarkerLen)

\* struct ConflictRegion of src/lib/parser.rs with the head and branch lines
\* exchanged
LibConflictRegion_exchanged(head, branch, ancestor, end) ==
    [head |-> branch, branch |-> head, ancestor |-> ancestor, end |-> end]

\* struct ConflictRegion of src/lib/parser.rs
LibConflictRegion(head, branch, ancestor, end) ==
    [head |-> head, branch |-> branch, ancestor |-> ancestor, end |-> end]

\* struct MergeConflict
MergeConflict(head, branch, ancestor, conflicts) ==
    [head |-> head, branch |-> branch, ancestor |-> ancestor, conflicts |-> conflicts]

\* enum ParseState: the variant and the line numbers it carries
ParseState(tag, head, ancestor, branch) ==
    [tag |-> tag, head |-> head, ancestor |-> ancestor, branch |-> branch]

Scanning == ParseState("Scanning", 0, 0, 0)

\* the local variables of parse
ParseLocals(state, conflicts, head_name, ancestor_name, branch_name) ==
    [state |-> state, conflicts |-> conflicts, head_name |-> head_name,
     ancestor_name |-> ancestor_name, branch_name |-> branch_name]

\* if !name.is_empty() && slot.is_none() { slot.replace(name) }
first_name(slot, name) == IF name # <<>> /\ ~slot.some THEN Some(name) ELSE slot

\* the body of the for loop of parse: the match on state for one line
parse_line(l, lineno, line) ==
    LET st == l.state
        ours == strip_prefix_trim(line, "<")
        anc == strip_prefix_trim(line, "|")
        fin == strip_prefix_trim(line, ">")
    IN CASE st.tag = "Scanning" ->
              IF ours.some
              THEN [l EXCEPT !.head_name = first_name(l.head_name, ours.val),
                             !.state = ParseState("ExpectAncestorOrBranch", lineno, 0, 0)]
              ELSE l
         [] st.tag = "ExpectAncestorOrBranch" ->
              IF anc.some
              THEN [l EXCEPT !.ancestor_name = first_name(l.ancestor_name, anc.val),
                             !.state = ParseState("ExpectBranchFromAncestor", st.head, lineno, 0)]
              ELSE IF line = TheirsToken
              THEN [l EXCEPT !.state = ParseState("ExpectEnd", st.head, 0, lineno)]
              ELSE l
         [] st.tag = "ExpectEnd" ->
              IF fin.some
              THEN [l EXCEPT !.branch_name = first_name(l.branch_name, fin.val),
                             !.conflicts = Append(l.conflicts,
                                 LibConflictRegion(st.head, st.branch, None, lineno)),
                             !.state = Scanning]
              ELSE l
         [] st.tag = "ExpectBranchFromAncestor" ->
              IF line = TheirsToken
              THEN [l EXCEPT !.state = ParseState("ExpectEndWithAncestor", st.head, st.ancestor, lineno)]
              ELSE l
         [] st.tag = "ExpectEndWithAncestor" ->
              IF fin.some
              THEN [l EXCEPT !.branch_name = first_name(l.branch_name, fin.val),
                             !.conflicts = Append(l.conflicts,
                                 LibConflictRegion(st.head, st.branch, Some(st.ancestor), lineno)),
                             !.state = Scanning]
              ELSE l

RECURSIVE parse_loop(_, _, _)
\* for (lineno, line) in text.lines().enumerate()
parse_loop(l, ls, lineno) ==
    IF lineno >= Len(ls) THEN l
    ELSE parse_loop(parse_line(l, lineno, ls[lineno + 1]), ls, lineno + 1)

\* what parse returns after the loop, every conflict being returned whatever
\* the final state is
parse_result_lenient(l) ==
    IF l.conflicts = <<>> THEN Ok(None)
    ELSE Ok(Some(MergeConflict(l.head_name, l.branch_name, l.ancestor_name, l.conflicts)))

\* what parse returns after the loop
parse_result(l) ==
    IF l.state.tag # "Scanning" THEN Err
    ELSE IF l.conflicts = <<>> THEN Ok(None)
    ELSE Ok(Some(MergeConflict(l.head_name, l.branch_name, l.ancestor_name, l.conflicts)))

\* parse of src/lib/parser.rs.  lineno.try_into() fails from line 2^32 on,
\* which no text of the bounds has.
parse(text) ==
    parse_result(parse_loop(ParseLocals(Scanning, <<>>, None, None, None), lines(text), 0))

(***************************************************************************)
(* Texts used as inputs                                                    *)
(***************************************************************************)
RECURSIVE JoinLines(_)
\* every line followed by its newline
JoinLines(ls) ==
    IF ls = <<>> THEN <<>> ELSE Head(ls) \o <<NL>> \o JoinLines(Tail(ls))

OursLine == Rep("<", MarkerLen)
AncestorLine == Rep("|", MarkerLen)
TheirsLine == Rep("=", MarkerLen)
EndLine == Rep(">", MarkerLen)

(***************************************************************************)
(* src/src/server.rs: the change applier                                   *)
(***************************************************************************)

\* lsp_types::Position
Position(line, character) == [line |-> line, character |-> character]

\* lsp_types::Range
Range(start, end) == [start |-> start, end |-> end]

\* lsp_types::TextDocumentContentChangeEvent: range is an Option<Range>
Change(range, text) == [range |-> range, text |-> text]

\* value.match_indices('\n'): the byte offsets of the newlines, ascending
match_indices_nl(value) ==
    SortedSeq({q \in 0..(Len(value) - 1) : value[q + 1] = NL})

\* index_for_position with a missing line clamped to the end of value
index_for_position_clamped(position, value) ==
    LET nls == match_indices_nl(value)
        index == IF position.line = 0 THEN 0
                 ELSE IF position.line <= Len(nls)
                      THEN nls[position.line] + 1
                      ELSE Len(value)
    IN Some(index + position.character)

\* index_for_position: Option<usize>, the byte offset of a position.
\* No check is made that the offset lies inside value.
index_for_position(position, value) ==
    LET nls == match_indices_nl(value)
        index == IF position.line = 0 THEN Some(0)
                 ELSE IF position.line <= Len(nls)     \* .nth(line - 1)
                      THEN Some(nls[position.line] + 1)
                      ELSE None
    IN IF index.some THEN Some(index.val + position.character) ELSE None

\* the outcome of a call that can panic
Returned(v) == [panic |-> FALSE, val |-> v]

Panicked == [panic |-> TRUE, val |-> <<>>]

\* String::replace_range with the text put at the end of s instead of in the
\* place of the range
replace_range_at_end(s, start, end, text) ==
    IF is_char_boundary(s, start) /\ is_char_boundary(s, end) /\ start <= end
    THEN Returned(Slice(s, 0, start) \o Slice(s, end, Len(s)) \o text)
    ELSE Panicked

\* String::replace_range(start..end, text): panics unless both offsets are
\* char boundaries of s (which requires them to be <= s.len()) and start <= end
replace_range(s, start, end, text) ==
    IF is_char_boundary(s, start) /\ is_char_boundary(s, end) /\ start <= end
    THEN Returned(Slice(s, 0, start) \o text \o Slice(s, end, Len(s)))
    ELSE Panicked

\* one iteration of the loop of apply_changes on the buffer `updated`
apply_change(updated, change) ==
    IF change.range.some
    THEN LET start == index_for_position(change.range.val.start, updated)
             end == index_for_position(change.range.val.end, updated)
         IN IF start.some /\ end.some
            THEN replace_range(updated, start.val, end.val, change.text)
            ELSE Returned(updated)                     \* log and continue
    ELSE Returned(change.text)                         \* replace_range(.., text)

RECURSIVE apply_loop(_, _)
\* the for loop of apply_changes over the remaining changes
apply_loop(updated, changes) ==
    IF changes = <<>> THEN Returned(updated)
    ELSE LET r == apply_change(updated, Head(changes))
         IN IF r.panic THEN Panicked ELSE apply_loop(r.val, Tail(changes))

RECURSIVE apply_loop_stale(_, _, _)
\* the loop with every offset computed against the content before the batch
apply_loop_stale(content, updated, changes) ==
    IF changes = <<>> THEN Returned(updated)
    ELSE LET change == Head(changes)
             start == index_for_position(change.range.val.start, content)
             end == index_for_position(change.range.val.end, content)
             r == IF change.range.some
                  THEN IF start.some /\ end.some
                       THEN replace_range(updated, start.val, end.val, change.text)
                       ELSE Returned(updated)
                  ELSE Returned(change.text)
         IN IF r.panic THEN Panicked ELSE apply_loop_stale(content, r.val, Tail(changes))

\* apply_changes with independent offset application
apply_changes_stale_offsets(content, changes) == apply_loop_stale(content, content, changes)

\* apply_changes(content, changes)
apply_changes(content, changes) == apply_loop(content, changes)

(***************************************************************************)
(* SpecApply: apply_changes on bounded contents and edit batches           *)
(***************************************************************************)
\* bound of the batches drawn: number of edits
MaxEdits == 2

\* an empty content, a two-line content, a content with a two-byte character
ApplyContents ==
    { <<>>,
      <<"a", NL, "b">>,
      <<"C3", "A9", NL>> }

EditTexts == { <<>>, <<"X">> }

Positions == {Position(0, 0), Position(0, 1), Position(1, 0), Position(2, 0)}

Edits ==
    {Change(Some(Range(s, e)), t) : s \in Positions, e \in Positions, t \in EditTexts}
    \cup {Change(None, t) : t \in EditTexts}

RECURSIVE SeqsUpTo(_, _)
\* the sequences over S of length at most n
SeqsUpTo(S, n) ==
    IF n = 0 THEN {<<>>}
    ELSE LET shorter == SeqsUpTo(S, n - 1)
         IN shorter \cup {Append(q, x) : q \in {r \in shorter : Len(r) = n - 1}, x \in S}

NotRun == [ran |-> FALSE, panic |-> FALSE, val |-> <<>>]

Ran(r) == [ran |-> TRUE, panic |-> r.panic, val |-> r.val]


(***************************************************************************)
(* src/src/parser.rs: diagnostics                                          *)
(***************************************************************************)

\* Conflict::start
Conflict_start(conflict) == Position(conflict.ours.start, 0)

\* Conflict::end
Conflict_end(conflict) == Position(conflict.theirs.end, conflict.last_char)

\* range_for_diagnostic_conflict without the adjustment of the end
range_for_diagnostic_conflict_to_marker(conflict) ==
    Range(Conflict_start(conflict), Conflict_end(conflict))

\* range_for_diagnostic_conflict: end.line += 1; end.character = 0
range_for_diagnostic_conflict(conflict) ==
    Range(Conflict_start(conflict), Position(Conflict_end(conflict).line + 1, 0))

\* impl From<&Conflict> for lsp_types::Diagnostic
Diagnostic_from(conflict) ==
    [range |-> range_for_diagnostic_conflict(conflict),
     message |-> "merge conflict",
     source |-> "merge",
     severity |-> "ERROR"]

(***************************************************************************)
(* src/src/server.rs: the document store and the reparse                   *)
(***************************************************************************)

\* struct DocumentState
DocumentState(content, version, conflicts) ==
    [content |-> content, version |-> version, conflicts |-> conflicts]

\* HashMap::insert / HashMap::remove / HashMap::get on the documents map
MapInsert(map, key, value) == [k \in DOMAIN map \cup {key} |-> IF k = key THEN value ELSE map[k]]

MapRemove(map, key) == [k \in DOMAIN map \ {key} |-> map[k]]

MapGet(map, key) == IF key \in DOMAIN map THEN Some(map[key]) ELSE None

\* prepare_diagnostics: Some(notification) when the document has a snapshot
prepare_diagnostics(uri, doc_state) ==
    IF doc_state.conflicts.some
    THEN Some([method |-> "textDocument/publishDiagnostics",
               uri |-> uri,
               diagnostics |-> [i \in 1..Len(doc_state.conflicts.val) |->
                                   Diagnostic_from(doc_state.conflicts.val[i])],
               version |-> doc_state.version])
    ELSE None

\* needs_update without the comparison with the stored snapshot
needs_update_uncompared(previous_conflicts, conflicts) == conflicts # <<>>

\* the value of needs_update in on_document_update, from the stored snapshot
\* (an Option) and the new scan result
needs_update(previous_conflicts, conflicts) ==
    IF previous_conflicts.some
    THEN IF previous_conflicts.val = <<>> /\ conflicts = <<>>
         THEN FALSE
         ELSE previous_conflicts.val # conflicts
    ELSE conflicts # <<>>

\* conflicts_after without the take() of the both-empty case
conflicts_after_untaken(previous_conflicts, conflicts) ==
    IF needs_update(previous_conflicts, conflicts)
    THEN Some(conflicts)
    ELSE previous_conflicts

\* doc_state.conflicts when on_document_update returns: take() when both are
\* empty, replace(conflicts) when an update is needed, untouched otherwise
conflicts_after(previous_conflicts, conflicts) ==
    IF previous_conflicts.some /\ previous_conflicts.val = <<>> /\ conflicts = <<>>
    THEN None
    ELSE IF needs_update(previous_conflicts, conflicts)
         THEN Some(conflicts)
         ELSE previous_conflicts

\* the version test of on_document_update with every version accepted
version_accepted_always(version, stored) == TRUE

\* the version test of on_document_update: the worker's version is accepted
version_accepted(version, stored) == version >= stored

\* ServerState::on_document_update: the documents map when it returns, the
\* notification it returns (an Option) and the scan it made (an Option)
on_document_update(docs, uri, version) ==
    IF uri \notin DOMAIN docs
    THEN [documents |-> docs, ret |-> None, scan |-> None]
    ELSE LET doc_state == docs[uri]
         IN IF ~version_accepted(version, doc_state.version)
            THEN [documents |-> docs, ret |-> None, scan |-> None]
            ELSE LET conflicts == Parse(doc_state.content)
                     updated == DocumentState(doc_state.content, version,
                                    conflicts_after(doc_state.conflicts, conflicts))
                 IN [documents |-> MapInsert(docs, uri, updated),
                     ret |-> IF needs_update(doc_state.conflicts, conflicts)
                             THEN prepare_diagnostics(uri, updated)
                             ELSE None,
                     scan |-> Some(conflicts)]

\* on_document_update up to the version test, the test left out
update_accepted_untested(docs, uri, version) == uri \in DOMAIN docs

\* on_document_update up to the version test: the document is tracked and
\* the worker's version is accepted
update_accepted(docs, uri, version) ==
    uri \in DOMAIN docs /\ version_accepted(version, docs[uri].version)

\* `doc_state.version = version` of on_document_update
store_version(docs, uri, version) ==
    MapInsert(docs, uri, DocumentState(docs[uri].content, version, docs[uri].conflicts))

\* the result of a notification handler: the documents map when it returns
\* and the (uri, version) pair it returns (an Option); panic tells that it
\* unwound instead of returning
Notified(panic, docs, ret) == [panic |-> panic, documents |-> docs, ret |-> ret]

\* on_did_open_text_document with HashMap::insert in place of entry().or_insert()
on_did_open_text_document_inserting(docs, uri, version, text) ==
    Notified(FALSE,
             MapInsert(docs, uri, DocumentState(text, version, None)),
             Some(<<uri, version>>))

\* ServerState::on_did_open_text_document
on_did_open_text_document(docs, uri, version, text) ==
    Notified(FALSE,
             IF uri \in DOMAIN docs                      \* entry().or_insert()
             THEN docs
             ELSE MapInsert(docs, uri, DocumentState(text, version, None)),
             Some(<<uri, version>>))

\* the tracked branch of on_did_change_text_document with the event's
\* version stored next to the new content
did_change_applied_storing_version(docs, uri, version, applied) ==
    IF applied.panic
    THEN Notified(TRUE, docs, None)
    ELSE Notified(FALSE,
                  MapInsert(docs, uri,
                      DocumentState(applied.val, version, docs[uri].conflicts)),
                  Some(<<uri, version>>))

\* the tracked branch of on_did_change_text_document from what apply_changes
\* returned: `doc_state.content = apply_changes(..)` and the return
did_change_applied(docs, uri, version, applied) ==
    IF applied.panic
    THEN Notified(TRUE, docs, None)
    ELSE Notified(FALSE,
                  MapInsert(docs, uri,
                      DocumentState(applied.val, docs[uri].version, docs[uri].conflicts)),
                  Some(<<uri, version>>))

\* ServerState::on_did_change_text_document
on_did_change_text_document(docs, uri, version, changes) ==
    IF uri \in DOMAIN docs
    THEN did_change_applied(docs, uri, version, apply_changes(docs[uri].content, changes))
    ELSE Notified(FALSE, docs, None)

\* ServerState::on_did_close_text_document
on_did_close_text_document(docs, uri) == Notified(FALSE, MapRemove(docs, uri), None)

(***************************************************************************)
(* src/src/parser.rs and src/src/server.rs: code actions                   *)
(***************************************************************************)

\* PartialOrd of lsp_types::Position: by line, then by character
PositionGe(a, b) == a.line > b.line \/ (a.line = b.line /\ a.character >= b.character)

\* `conflict_end >= line - 1` in wrapping u32 arithmetic: for line = 0 the
\* difference is u32::MAX (4294967295), which no line number of a text reaches
ge_wrapping_pred(conflict_end, line) ==
    IF line = 0 THEN FALSE ELSE conflict_end >= line - 1

\* Conflict::is_in_range evaluates `end.line - 1`: the early return is not
\* taken and the left operand of && is true
evaluates_line_minus_one(conflict, range) ==
    /\ ~(conflict.ours.start > range.start.line \/ conflict.theirs.end < range.start.line)
    /\ range.end.character = 0

\* Conflict::is_in_range.  `end.line - 1` is a u32 subtraction, evaluated
\* only when end.character == 0: with end.line = 0 it panics in a build with
\* overflow checks and wraps to u32::MAX in a build without them.
is_in_range(conflict, range, overflow_checks) ==
    IF conflict.ours.start > range.start.line \/ conflict.theirs.end < range.start.line
    THEN Returned(FALSE)
    ELSE LET end == range.end
             conflict_end == conflict.theirs.end
         IN IF end.character = 0
            THEN IF end.line = 0 /\ overflow_checks
                 THEN Panicked
                 ELSE IF ge_wrapping_pred(conflict_end, end.line)
                      THEN Returned(TRUE)
                      ELSE Returned(PositionGe(Conflict_end(conflict), end))
            ELSE Returned(PositionGe(Conflict_end(conflict), end))

\* the bytes of the titles of the code actions
KeepPrefix == <<"K", "e", "e", "p", " ">>

TitleOURS == <<"O", "U", "R", "S">>

TitleTHEIRS == <<"T", "H", "E", "I", "R", "S">>

TitleAncestor == <<"a", "n", "c", "e", "s", "t", "o", "r">>

TitleKeepBoth == KeepPrefix \o <<"b", "o", "t", "h">>

\* as_string_with_default!("Keep {}", option, default)
as_string_with_default(option, default) ==
    KeepPrefix \o (IF option.some THEN option.val ELSE default)

\* &content[start..end]: panics unless start <= end <= len and both offsets
\* are char boundaries
str_index(content, start, end) ==
    IF start <= end /\ end <= Len(content)
       /\ is_char_boundary(content, start) /\ is_char_boundary(content, end)
    THEN Returned(Slice(content, start, end))
    ELSE Panicked

\* start.unwrap(), end.unwrap() and the slice between them
unwrap_and_index(content, start, end) ==
    IF start.some /\ end.some
    THEN str_index(content, start.val, end.val)
    ELSE Panicked

\* the body of the loop of make_code_action for one kept region: the slice of
\* the content between the line after region.start and line region.end
region_lines(region, content) ==
    unwrap_and_index(content,
                     index_for_position(Position(region.start + 1, 0), content),
                     index_for_position(Position(region.end, 0), content))

\* lines.push(first) before the slices of the regions that follow
push_lines(first, rest) ==
    IF first.panic \/ rest.panic THEN Panicked
    ELSE Returned(first.val \o rest.val)

RECURSIVE kept_lines(_, _)
\* the loop of make_code_action and lines.join("")
kept_lines(kept_regions, content) ==
    IF kept_regions = <<>> THEN Returned(<<>>)
    ELSE push_lines(region_lines(Head(kept_regions), content),
                    kept_lines(Tail(kept_regions), content))

\* the CodeAction built by make_code_action from new_text
CodeAction(title, uri, range, new_text, diagnostic) ==
    IF new_text.panic THEN Panicked
    ELSE Returned([title |-> title,
                   kind |-> "quickfix",
                   is_preferred |-> Some(TRUE),
                   diagnostics |-> Some(<<diagnostic>>),
                   edit |-> [uri |-> uri,
                             edits |-> << [range |-> range, new_text |-> new_text.val] >>]])

\* make_code_action
make_code_action(title, uri, document_state, range, kept_regions, diagnostic) ==
    CodeAction(title, uri, range, kept_lines(kept_regions, document_state.content), diagnostic)

\* the Vec of the items when every call of make_code_action returned
items_or_panic(items) ==
    IF \E i \in 1..Len(items) : items[i].panic
    THEN Panicked
    ELSE Returned([i \in 1..Len(items) |-> items[i].val])

\* conflict_as_code_actions: the Vec of actions, or the panic of one of the
\* calls of make_code_action
conflict_as_code_actions(conflict, uri, document_state) ==
    items_or_panic(
        << make_code_action(as_string_with_default(conflict.ours.name, TitleOURS),
               uri, document_state, range_for_diagnostic_conflict(conflict),
               <<conflict.ours>>, Diagnostic_from(conflict)),
           make_code_action(as_string_with_default(conflict.theirs.name, TitleTHEIRS),
               uri, document_state, range_for_diagnostic_conflict(conflict),
               <<conflict.theirs>>, Diagnostic_from(conflict)),
           make_code_action(TitleKeepBoth,
               uri, document_state, range_for_diagnostic_conflict(conflict),
               <<conflict.ours, conflict.theirs>>, Diagnostic_from(conflict)) >>
        \o (IF conflict.ancestor.some
            THEN << make_code_action(
                        as_string_with_default(conflict.ancestor.val.name, TitleAncestor),
                        uri, document_state, range_for_diagnostic_conflict(conflict),
                        <<conflict.ancestor.val>>, Diagnostic_from(conflict)) >>
            ELSE <<>>))

(***************************************************************************)
(* src/src/server.rs: requests                                             *)
(***************************************************************************)

\* lsp_server::Request; params is None when the payload does not decode as
\* the parameters of the method
Request(id, method, params) == [id |-> id, method |-> method, params |-> params]

\* lsp_types::CodeActionParams (text_document.uri and range)
CodeActionParams(uri, range) == [uri |-> uri, range |-> range]

\* lsp_server::ErrorCode::InvalidRequest
InvalidRequest == -32600

\* lsp_server::Response::new_ok
Response_new_ok(id, result) == [id |-> id, result |-> Some(result), error |-> None]

\* lsp_server::Response::new_err
Response_new_err(id, code, message) ==
    [id |-> id, result |-> None, error |-> Some([code |-> code, message |-> message])]

\* the result of a request handler: kind is "ok" for Ok(ret), "err" for
\* Err(..) and "panic" for a panic; handler names the function that served
\* the request; shutdown_requested is the flag when it returns
Handled(kind, handler, flag, ret) ==
    [kind |-> kind, handler |-> handler, shutdown_requested |-> flag, ret |-> ret]

\* ServerState::on_shutdown
on_shutdown(request) ==
    Handled("ok", "on_shutdown", TRUE,
            Some(Response_new_err(request.id, InvalidRequest, "Shutdown already requested.")))

RECURSIVE find_in_range(_, _, _)
\* one step of find: in_range is what is_in_range returned for the first
\* conflict
find_next(in_range, conflicts, range, overflow_checks) ==
    IF in_range.panic THEN Panicked
    ELSE IF in_range.val THEN Returned(Some(Head(conflicts)))
    ELSE find_in_range(Tail(conflicts), range, overflow_checks)

\* conflicts.iter().find(|conflict| conflict.is_in_range(&range)): the first
\* conflict in range (an Option), or the panic of is_in_range
find_in_range(conflicts, range, overflow_checks) ==
    IF conflicts = <<>> THEN Returned(None)
    ELSE find_next(is_in_range(Head(conflicts), range, overflow_checks),
                   conflicts, range, overflow_checks)

\* the end of on_code_action_request: the response built from the actions
code_action_response(flag, id, actions) ==
    IF actions.panic
    THEN Handled("panic", "on_code_action_request", flag, None)
    ELSE Handled("ok", "on_code_action_request", flag, Some(Response_new_ok(id, actions.val)))

\* on_code_action_request from the result of conflicts.iter().find(..)
code_action_found(flag, id, uri, document_state, found) ==
    IF found.panic
    THEN Handled("panic", "on_code_action_request", flag, None)
    ELSE IF ~found.val.some                              \* unwrap_or_return!
    THEN Handled("ok", "on_code_action_request", flag, None)
    ELSE code_action_response(flag, id,
             conflict_as_code_actions(found.val.val, uri, document_state))

\* on_code_action_request from the document of the request
code_action_document(flag, id, params, document_state, overflow_checks) ==
    IF ~document_state.conflicts.some                    \* unwrap_or_return!
    THEN Handled("ok", "on_code_action_request", flag, None)
    ELSE code_action_found(flag, id, params.uri, document_state,
             find_in_range(document_state.conflicts.val, params.range, overflow_checks))

\* ServerState::on_code_action_request
on_code_action_request(flag, docs, request, overflow_checks) ==
    IF ~request.params.some                              \* request.extract(..)?
    THEN Handled("err", "on_code_action_request", flag, None)
    ELSE IF request.params.val.uri \notin DOMAIN docs    \* unwrap_or_return!
    THEN Handled("ok", "on_code_action_request", flag, None)
    ELSE code_action_document(flag, request.id, request.params.val,
                              docs[request.params.val.uri], overflow_checks)

\* ServerState::on_request
on_request(flag, docs, request, overflow_checks) ==
    IF flag THEN on_shutdown(request)
    ELSE IF request.method = "shutdown" THEN on_shutdown(request)
    ELSE IF request.method = "textDocument/codeAction"
         THEN on_code_action_request(flag, docs, request, overflow_checks)
    ELSE Handled("ok", "ignored", flag, None)

(***************************************************************************)
(* Sequential application of edits, stated on lines and offsets            *)
(***************************************************************************)
NewlineCount(c) == Cardinality({i \in 1..Len(c) : c[i] = NL})

\* the offset of a position of content c whose line exists: 0 for line 0,
\* one past the line-th newline otherwise, plus the character
OffsetOf(c, pos) ==
    LET lineStart == IF pos.line = 0 THEN 0
                     ELSE CHOOSE q \in 1..Len(c) :
                             c[q] = NL /\ Cardinality({i \in 1..q : c[i] = NL}) = pos.line
    IN lineStart + pos.character

LineMissing(c, pos) == pos.line > NewlineCount(c)

\* one edit applied to c: no range replaces everything, a range replaces the
\* bytes between its two offsets (an edit on a missing line changes nothing)
SequentialEdit(c, e) ==
    IF ~e.range.some THEN e.text
    ELSE IF LineMissing(c, e.range.val.start) \/ LineMissing(c, e.range.val.end) THEN c
         ELSE SubSeq(c, 1, OffsetOf(c, e.range.val.start)) \o e.text
                 \o SubSeq(c, OffsetOf(c, e.range.val.end) + 1, Len(c))

RECURSIVE LeftFold(_, _)
\* the left fold of SequentialEdit over the edits in array order
LeftFold(c, es) ==
    IF es = <<>> THEN c
    ELSE SequentialEdit(LeftFold(c, SubSeq(es, 1, Len(es) - 1)), es[Len(es)])

\* the handling of the request reaches `self.documents.lock()` of
\* on_code_action_request
takes_documents_lock(flag, request) ==
    ~flag /\ request.method = "textDocument/codeAction" /\ request.params.some

(***************************************************************************)
(* Inputs of the server                                                    *)
(***************************************************************************)
\* bound of the server runs: number of inbound messages
MaxInbound == 3

URIs == {"file:///a"}

\* versions carried by open and change events
Versions == {0, 1}

T_plain == JoinLines(<< <<"a">> >>)

T_conflict == JoinLines(<<OursLine, <<"a">>, TheirsLine, <<"b">>, EndLine>>)

OpenTexts == {T_plain, T_conflict}

\* edit batches of change events: whole-document replacements, an insertion
\* before the first line, an insertion at the start of line 5 (after the
\* conflict block of T_conflict, a missing line of T_plain), an edit past the
\* end of the content
ChangeBatches ==
    { << Change(None, T_plain) >>,
      << Change(None, T_conflict) >>,
      << Change(Some(Range(Position(0, 0), Position(0, 0))), <<"x", NL>>) >>,
      << Change(Some(Range(Position(5, 0), Position(5, 0))), <<"x">>) >>,
      << Change(Some(Range(Position(0, 40), Position(0, 40))), <<"x">>) >> }

\* the methods routed by on_notification_message
RoutedNotifications ==
    {"textDocument/didOpen", "textDocument/didChange", "textDocument/didClose"}

\* ranges of code-action requests: inside the block of T_conflict, an empty
\* range at the start of the document, a range after every line
RequestRanges ==
    { Range(Position(1, 0), Position(1, 1)),
      Range(Position(0, 0), Position(0, 0)),
      Range(Position(9, 0), Position(9, 0)) }

(***************************************************************************)
(* Spec: the dispatcher thread and the reparse worker threads              *)
(*                                                                         *)
(* A handler of the dispatcher thread takes the documents lock for its     *)
(* whole body: it is one atomic step, enabled when the lock is free.  The  *)
(* send of the reply to a request, under the sender lock, is a second step *)
(* of the dispatcher thread, taken after the handler has returned.  A      *)
(* worker thread takes three steps: on_document_update up to the version   *)
(* test, which takes the documents lock; the rest of on_document_update    *)
(* (the scan, the decision, the store), which ends with the release of the *)
(* lock; the send under the sender lock.                                   *)
(***************************************************************************)
\* history record of a call: op names the handler, before / after are the
\* document entry of uri (an Option) before and after it, scan is the scan it
\* made and ret what it returned (Options); stale tells, for a step of a
\* worker thread, that a close of uri was processed after the thread's spawn;
\* flag is shutdown_requested when the call began; id, method, range and kind
\* are those of a request and of its handling; text is the text of an open
\* event; applied is, for the scan of a worker thread, the scan of the content
\* the document had when the event that spawned the thread had been handled
\* (recorded when recording is TRUE); outside tells, for a step of a worker
\* thread, that the thread was
\* spawned for an outside change (see OutsideChange) and that no later
\* change or close of the URI was handled since; seq is, for a send, the rank
\* of the notification sent among the notifications computed
NoCall == [op |-> "none", uri |-> "", version |-> 0, stale |-> FALSE,
           before |-> None, after |-> None, scan |-> None, ret |-> None,
           flag |-> FALSE, id |-> 0, method |-> "", range |-> None, kind |-> "ok",
           text |-> <<>>, outside |-> FALSE, seq |-> 0, applied |-> <<>>]

Call(op, uri, version, stale, before, after, scan, ret) ==
    [op |-> op, uri |-> uri, version |-> version, stale |-> stale,
     before |-> before, after |-> after, scan |-> scan, ret |-> ret,
     flag |-> shutdown_requested, id |-> 0, method |-> "", range |-> None, kind |-> "ok",
     text |-> <<>>, outside |-> FALSE, seq |-> 0, applied |-> <<>>]

\* history record of the handling of a request
RequestCall(request, handled) ==
    [op |-> handled.handler,
     uri |-> IF request.method = "textDocument/codeAction" /\ request.params.some
             THEN request.params.val.uri ELSE "",
     version |-> 0, stale |-> FALSE,
     before |-> IF request.method = "textDocument/codeAction" /\ request.params.some
                THEN MapGet(documents, request.params.val.uri) ELSE None,
     after |-> IF request.method = "textDocument/codeAction" /\ request.params.some
               THEN MapGet(documents, request.params.val.uri) ELSE None,
     scan |-> None, ret |-> handled.ret,
     flag |-> shutdown_requested, id |-> request.id, method |-> request.method,
     range |-> IF request.method = "textDocument/codeAction" /\ request.params.some
               THEN Some(request.params.val.range) ELSE None,
     kind |-> handled.kind,
     text |-> <<>>, outside |-> FALSE, seq |-> 0, applied |-> <<>>]

\* the loop of real_main_loop takes the next inbound message
Receiving == running /\ ended = "no" /\ ~reply.some /\ received < MaxInbound

\* thread::spawn(move || ..) of handle_message: the closure's captures and
\* its position; epoch is history (the closes of the URI seen at spawn time)
\* pc is "update" at the call of on_document_update, "parse" at the call of
\* Parser::parse and "send" at the send; before and outside are history (the
\* entry of the URI found by on_document_update; the spawn by an outside
\* change that is still the last change of the URI); seq is history (the rank
\* of the thread's notification among the notifications computed); applied
\* is history (the scan of the content the document had when the event that
\* spawned the thread had been handled, recorded when recording is TRUE)
Thread(uri, version, epoch) ==
    [uri |-> uri, version |-> version, epoch |-> epoch, pc |-> "update",
     before |-> None, outside |-> FALSE, message |-> None, seq |-> 0, applied |-> <<>>]

\* history: the number of notifications on_document_update has returned so
\* far, those sent and those a worker thread is about to send
Computed(ts, out) ==
    Cardinality({k \in 1..Len(out) : "method" \in DOMAIN out[k]})
        + Cardinality({k \in 1..Len(ts) : ts[k].pc = "send"})

\* history: the stored snapshot of doc_state is the scan of its content and
\* has a conflict, and every edit of the batch has a range that lies on
\* lines outside the marker span [ours.start, theirs.end] of every conflict
OutsideChange(doc_state, changes) ==
    /\ doc_state.conflicts.some
    /\ doc_state.conflicts.val # <<>>
    /\ doc_state.conflicts.val = Parse(doc_state.content)
    /\ changes # <<>>
    /\ \A k \in 1..Len(changes) :
          /\ changes[k].range.some
          /\ \A j \in 1..Len(doc_state.conflicts.val) :
                \/ changes[k].range.val.end.line < doc_state.conflicts.val[j].ours.start
                \/ changes[k].range.val.start.line > doc_state.conflicts.val[j].theirs.end

\* history: the threads spawned for uri are no longer those of its last change
Superseded(ts, uri) ==
    [i \in 1..Len(ts) |-> IF ts[i].uri = uri THEN [ts[i] EXCEPT !.outside = FALSE] ELSE ts[i]]


RemoveAt(q, i) == [k \in 1..(Len(q) - 1) |-> IF k < i THEN q[k] ELSE q[k + 1]]

ParseIdle == p_text = <<>> /\ p_out = NotRun /\ l_out = NotRun

ApplyIdle == a_content = <<>> /\ a_changes = <<>> /\ a_out = NotRun

ActionsIdle == c_content = <<>> /\ c_version = 0 /\ c_out = NotRun /\ c_note = NotRun

RangeIdle ==
    /\ r_conflict = Conflict_new(<<0, 0, <<>> >>, <<0, 0, <<>> >>, 0)
    /\ r_range = Range(Position(0, 0), Position(0, 0))
    /\ r_checks = FALSE
    /\ r_out = NotRun

\* bound of the lock runs: number of worker threads spawned
MaxLockWorkers == 2

\* bound of the lock runs: number of inbound messages
MaxLockInbound == 3

\* the holder of a mutex: no thread, the dispatcher thread, or the worker
\* thread of that number
Free == -1

Dispatcher == 0

LocksIdle ==
    /\ k_dispatcher = "receive"
    /\ k_workers = [i \in 1..MaxLockWorkers |-> "unspawned"]
    /\ k_documents = Free
    /\ k_sender = Free
    /\ k_poisoned = FALSE
    /\ k_received = 0

ServerStart(record) ==
    /\ documents = <<>>
    /\ threads = <<>>
    /\ outbound = <<>>
    /\ running = TRUE
    /\ received = 0
    /\ shutdown_requested = FALSE
    /\ ended = "no"
    /\ lock = "free"
    /\ reply = None
    /\ folded = [u \in URIs |-> <<>>]
    /\ closes = [u \in URIs |-> 0]
    /\ lastCall = NoCall
    /\ recording = record

ServerIdle == ServerStart(FALSE)

Init == ServerIdle /\ ParseIdle /\ ApplyIdle /\ ActionsIdle /\ RangeIdle /\ LocksIdle

\* handle_message, Notification "textDocument/didOpen":
\* on_did_open_text_document, then the spawn of the reparse worker
DidOpen(uri, version, text) ==
    /\ Receiving
    /\ lock = "free"
    /\ received' = received + 1
    /\ \E r \in {on_did_open_text_document(documents, uri, version, text)} :
          /\ documents' = r.documents
          /\ threads' = Append(threads,
                                [Thread(r.ret.val[1], r.ret.val[2], closes[uri])
                                   EXCEPT !.applied = IF recording
                                                        THEN Parse(r.documents[uri].content)
                                                        ELSE <<>>])
          /\ lastCall' = [Call("didOpen", uri, version, FALSE,
                               MapGet(documents, uri), MapGet(r.documents, uri), None, r.ret)
                             EXCEPT !.text = text]
    /\ folded' = IF uri \in DOMAIN documents
                 THEN folded
                 ELSE [folded EXCEPT ![uri] = text]
    /\ UNCHANGED <<outbound, running, shutdown_requested, ended, closes, lock,
                   reply, recording, parseVars, applyVars, actionVars, rangeVars, lockVars>>

\* handle_message, Notification "textDocument/didChange":
\* on_did_change_text_document, then the spawn of the reparse worker.
\* A panic of apply_changes unwinds the dispatcher thread with the documents
\* lock held.
DidChange(uri, version, changes) ==
    /\ Receiving
    /\ lock = "free"
    /\ received' = received + 1
    /\ \E r \in {on_did_change_text_document(documents, uri, version, changes)} :
          /\ documents' = r.documents
          /\ running' = ~r.panic
          /\ threads' = IF r.ret.some
                        THEN Append(Superseded(threads, uri),
                                    [Thread(r.ret.val[1], r.ret.val[2], closes[uri])
                                       EXCEPT !.outside = OutsideChange(documents[uri], changes),
                                              !.applied = IF recording
                                                        THEN Parse(r.documents[uri].content)
                                                        ELSE <<>>])
                        ELSE threads
          /\ folded' = IF r.ret.some
                       THEN [folded EXCEPT ![uri] = LeftFold(@, changes)]
                       ELSE folded
          /\ lastCall' = [Call("didChange", uri, version, FALSE,
                               MapGet(documents, uri), MapGet(r.documents, uri), None, r.ret)
                             EXCEPT !.kind = IF r.panic THEN "panic" ELSE "ok"]
    /\ UNCHANGED <<outbound, shutdown_requested, ended, closes, lock,
                   reply, recording, parseVars, applyVars, actionVars, rangeVars, lockVars>>

\* handle_message, Notification "textDocument/didClose": on_did_close_text_document
DidClose(uri) ==
    /\ Receiving
    /\ lock = "free"
    /\ received' = received + 1
    /\ \E r \in {on_did_close_text_document(documents, uri)} :
          /\ documents' = r.documents
          /\ lastCall' = Call("didClose", uri, 0, FALSE,
                              MapGet(documents, uri), MapGet(r.documents, uri), None, r.ret)
    /\ closes' = [closes EXCEPT ![uri] = @ + 1]
    /\ folded' = [folded EXCEPT ![uri] = <<>>]
    /\ threads' = Superseded(threads, uri)
    /\ UNCHANGED <<outbound, running, shutdown_requested, ended, lock,
                   reply, recording, parseVars, applyVars, actionVars, rangeVars, lockVars>>

\* handle_message, Notification of a method that on_notification_message
\* does not route
UnhandledNotification ==
    /\ Receiving
    /\ received' = received + 1
    /\ lastCall' = Call("unhandledNotification", "", 0, FALSE, None, None, None, None)
    /\ UNCHANGED <<documents, threads, outbound, running, shutdown_requested, ended, closes,
                   lock, folded,
                   reply, recording, parseVars, applyVars, actionVars, rangeVars, lockVars>>

\* handle_message, Notification of a routed method whose params do not
\* decode: serde_json::from_value(..)? returns Err, on_notification_message(..)?
\* and handle_message(..)? pass it on and real_main_loop returns it
UndecodableNotification(method) ==
    /\ Receiving
    /\ received' = received + 1
    /\ ended' = "error"
    /\ lastCall' = [Call("undecodableNotification", "", 0, FALSE, None, None, None, None)
                      EXCEPT !.method = method, !.kind = "err"]
    /\ UNCHANGED <<documents, threads, outbound, running, shutdown_requested, closes,
                   lock, folded,
                   reply, recording, parseVars, applyVars, actionVars, rangeVars, lockVars>>

\* handle_message, Request: on_request up to its return, which binds the
\* local `reply`; every guard on_request took is dropped by then.  An Err ends
\* the loop; a panic of the code-action handler unwinds the dispatcher thread
\* with the documents lock held.
HandleRequest(request, overflow_checks) ==
    /\ Receiving
    /\ takes_documents_lock(shutdown_requested, request) => lock = "free"
    /\ received' = received + 1
    /\ \E handled \in {on_request(shutdown_requested, documents, request, overflow_checks)} :
          /\ shutdown_requested' = handled.shutdown_requested
          /\ running' = (handled.kind # "panic")
          /\ ended' = IF handled.kind = "err" THEN "error" ELSE ended
          /\ reply' = IF handled.ret.some
                      THEN Some([message |-> handled.ret.val,
                                 call |-> RequestCall(request, handled)])
                      ELSE None
          /\ lastCall' = RequestCall(request, handled)
    /\ UNCHANGED <<documents, threads, outbound, closes, lock, folded,
                   recording, parseVars, applyVars, actionVars, rangeVars, lockVars>>

\* Request "shutdown"
RequestShutdown == HandleRequest(Request(received + 1, "shutdown", None), FALSE)

\* Request "textDocument/codeAction" with decodable params
RequestCodeAction(uri, range, overflow_checks) ==
    HandleRequest(Request(received + 1, "textDocument/codeAction",
                          Some(CodeActionParams(uri, range))), overflow_checks)

\* Request "textDocument/codeAction" whose params do not decode
RequestCodeActionUndecodable ==
    HandleRequest(Request(received + 1, "textDocument/codeAction", None), FALSE)

\* Request of a method that on_request does not route
RequestUnhandled == HandleRequest(Request(received + 1, "textDocument/hover", None), FALSE)

\* handle_message, Request, `if let Some(message) = reply`: the send of the
\* reply under the sender lock, a step of its own that the steps of the worker
\* threads may precede
SendReply ==
    /\ running
    /\ reply.some
    /\ outbound' = Append(outbound, reply.val.message)
    /\ reply' = None
    /\ lastCall' = reply.val.call
    /\ UNCHANGED <<documents, threads, running, received, shutdown_requested, ended, closes,
                   lock, folded,
                   recording, parseVars, applyVars, actionVars, rangeVars, lockVars>>

\* handle_message, Response: logged only
ResponseMessage ==
    /\ Receiving
    /\ received' = received + 1
    /\ lastCall' = Call("response", "", 0, FALSE, None, None, None, None)
    /\ UNCHANGED <<documents, threads, outbound, running, shutdown_requested, ended, closes,
                   lock, folded,
                   reply, recording, parseVars, applyVars, actionVars, rangeVars, lockVars>>

\* `for msg in &connection.receiver` ends: the inbound stream is closed
StreamClosed ==
    /\ running /\ ended = "no" /\ ~reply.some
    /\ ended' = "closed"
    /\ UNCHANGED <<documents, threads, outbound, running, received, shutdown_requested,
                   closes, lastCall, lock, folded,
                   reply, recording, parseVars, applyVars, actionVars, rangeVars, lockVars>>

\* the worker closure, state.on_document_update(&uri, version) up to the
\* version test: the lock of the documents, the lookup of the entry, the
\* version test and the store of the version.  With the documents lock
\* poisoned by a dispatcher panic, lock().unwrap() panics and the thread ends.
\* The two early returns drop the guard.
WorkerLock(i) ==
    /\ i \in 1..Len(threads)
    /\ threads[i].pc = "update"
    /\ lock = "free"
    /\ \E t \in {threads[i]} :
          IF ~running
          THEN /\ threads' = RemoveAt(threads, i)
               /\ UNCHANGED <<documents, lock, lastCall>>
          ELSE IF update_accepted(documents, t.uri, t.version)
          THEN /\ documents' = store_version(documents, t.uri, t.version)
               /\ threads' = [threads EXCEPT ![i].pc = "parse",
                                             ![i].before = MapGet(documents, t.uri)]
               /\ lock' = "worker"
               /\ UNCHANGED lastCall
          ELSE \E r \in {on_document_update(documents, t.uri, t.version)} :
               /\ documents' = r.documents
               /\ threads' = RemoveAt(threads, i)
               /\ lastCall' = [Call("update", t.uri, t.version, t.epoch < closes[t.uri],
                                    MapGet(documents, t.uri), MapGet(r.documents, t.uri),
                                    r.scan, r.ret)
                                  EXCEPT !.outside = t.outside]
               /\ UNCHANGED lock
    /\ UNCHANGED <<outbound, running, received, shutdown_requested, ended, closes, folded,
                   reply, recording, parseVars, applyVars, actionVars, rangeVars, lockVars>>

\* the worker closure, the rest of on_document_update: Parser::parse on the
\* content of the entry, the decision, the store of the snapshot and the
\* notification, all with the guard of the documents lock alive; the return
\* drops the guard
WorkerUpdate(i) ==
    /\ i \in 1..Len(threads)
    /\ threads[i].pc = "parse"
    /\ \E t \in {threads[i]} : \E r \in {on_document_update(documents, t.uri, t.version)} :
          /\ documents' = r.documents
          /\ threads' = IF r.ret.some
                        THEN [threads EXCEPT ![i].pc = "send", ![i].message = r.ret,
                                             ![i].seq = Computed(threads, outbound) + 1,
                                             ![i].before = None, ![i].outside = FALSE,
                                             ![i].applied = <<>>]
                        ELSE RemoveAt(threads, i)
          /\ lastCall' = [Call("update", t.uri, t.version, t.epoch < closes[t.uri],
                               t.before, MapGet(r.documents, t.uri), r.scan, r.ret)
                             EXCEPT !.outside = t.outside, !.applied = t.applied]
    /\ lock' = "free"
    /\ UNCHANGED <<outbound, running, received, shutdown_requested, ended, closes, folded,
                   reply, recording, parseVars, applyVars, actionVars, rangeVars, lockVars>>

\* the end of the worker closure: sender.lock().unwrap().send(message)
WorkerSend(i) ==
    /\ i \in 1..Len(threads)
    /\ threads[i].pc = "send"
    /\ outbound' = Append(outbound, threads[i].message.val)
    /\ threads' = RemoveAt(threads, i)
    /\ lastCall' = LET t == threads[i]
                   IN [Call("send", t.uri, t.version, t.epoch < closes[t.uri],
                            MapGet(documents, t.uri), MapGet(documents, t.uri), None, t.message)
                         EXCEPT !.seq = t.seq]
    /\ UNCHANGED <<documents, running, received, shutdown_requested, ended, closes,
                   lock, folded,
                   reply, recording, parseVars, applyVars, actionVars, rangeVars, lockVars>>

Next ==
    \/ \E uri \in URIs, version \in Versions, text \in OpenTexts : DidOpen(uri, version, text)
    \/ \E uri \in URIs, version \in Versions, changes \in ChangeBatches :
          DidChange(uri, version, changes)
    \/ \E uri \in URIs : DidClose(uri)
    \/ UnhandledNotification
    \/ \E method \in RoutedNotifications : UndecodableNotification(method)
    \/ RequestShutdown
    \/ \E uri \in URIs, range \in RequestRanges, overflow_checks \in BOOLEAN :
          RequestCodeAction(uri, range, overflow_checks)
    \/ RequestCodeActionUndecodable
    \/ RequestUnhandled
    \/ SendReply
    \/ ResponseMessage
    \/ StreamClosed
    \/ \E i \in 1..Len(threads) : WorkerLock(i)
    \/ \E i \in 1..Len(threads) : WorkerUpdate(i)
    \/ \E i \in 1..Len(threads) : WorkerSend(i)

Spec == Init /\ [][Next]_vars

\* the server with the scans of the events recorded in the threads
InitScans ==
    ServerStart(TRUE) /\ ParseIdle /\ ApplyIdle /\ ActionsIdle /\ RangeIdle /\ LocksIdle

SpecScans == InitScans /\ [][Next]_vars

(***************************************************************************)
(* SpecParse: Parser::parse on bounded texts                               *)
(***************************************************************************)
\* bound of the texts drawn: number of lines
MaxLines == 6

LinePool == {OursLine, AncestorLine, TheirsLine, EndLine, <<"a">>}

\* the texts of at most n lines of the pool
ParseTexts(n) == {JoinLines(ls) : ls \in SeqsUpTo(LinePool, n)}

\* a document that mixes a classic block and a diff3 block
T_mixed == JoinLines(<<OursLine, TheirsLine, EndLine,
                       OursLine, AncestorLine, TheirsLine, EndLine>>)

\* two blocks whose marker lines carry different names
T_named == JoinLines(<<OursLine \o <<" ", "x">>, TheirsLine, EndLine \o <<" ", "y", " ">>,
                       OursLine \o <<" ", "z">>, TheirsLine, EndLine>>)

\* a block after a line that holds a two-byte character
T_multibyte == JoinLines(<< <<"C3", "A9">>, OursLine, TheirsLine, EndLine >>)

\* a diff3 block followed by a classic block
T_diff3_classic == JoinLines(<<OursLine, <<"a">>, AncestorLine, <<"a">>, TheirsLine, <<"a">>, EndLine,
                               OursLine, TheirsLine, EndLine>>)

\* a block whose lines end with "\r\n"
T_crlf == JoinLines(<<OursLine \o <<"\r">>, <<"a", "\r">>, TheirsLine \o <<"\r">>, EndLine \o <<"\r">>>>)

\* a block whose separator line carries a name
T_separator_named == JoinLines(<<OursLine, TheirsLine \o <<" ", "x">>, EndLine>>)

\* a diff3 block and a classic block with marker lines where none is expected
T_stray == JoinLines(<<OursLine, OursLine, AncestorLine, TheirsLine, TheirsLine, EndLine,
                       EndLine, OursLine, TheirsLine, EndLine>>)

ParseExamples ==
    {T_mixed, T_named, T_multibyte, T_diff3_classic, T_crlf, T_separator_named, T_stray}

InitParse ==
    /\ ServerIdle /\ ApplyIdle /\ ActionsIdle /\ RangeIdle /\ LocksIdle
    /\ p_text \in ParseTexts(MaxLines) \cup ParseExamples
    /\ p_out = NotRun
    /\ l_out = NotRun

RunParse ==
    /\ ~p_out.ran
    /\ p_out' = Ran(Returned(Parse(p_text)))
    /\ l_out' = Ran(Returned(parse(p_text)))
    /\ UNCHANGED <<p_text, serverVars, applyVars, actionVars, rangeVars, lockVars>>

NextParse == RunParse

SpecParse == InitParse /\ [][NextParse]_vars

(***************************************************************************)
(* SpecApply: apply_changes on bounded contents and edit batches           *)
(***************************************************************************)
InitApply ==
    /\ ServerIdle /\ ParseIdle /\ ActionsIdle /\ RangeIdle /\ LocksIdle
    /\ a_content \in ApplyContents
    /\ a_changes \in SeqsUpTo(Edits, MaxEdits)
    /\ a_out = NotRun

RunApply ==
    /\ ~a_out.ran
    /\ a_out' = Ran(apply_changes(a_content, a_changes))
    /\ UNCHANGED <<a_content, a_changes, serverVars, parseVars, actionVars, rangeVars, lockVars>>

NextApply == RunApply

SpecApply == InitApply /\ [][NextApply]_vars

(***************************************************************************)
(* SpecActions: conflict_as_code_actions and prepare_diagnostics on the    *)
(* conflicts scanned from bounded contents                                 *)
(***************************************************************************)
\* bound of the contents drawn: number of lines
MaxActionLines == 5

\* a diff3 block with different content lines in its three regions
T_diff3 == JoinLines(<<OursLine, <<"a">>, AncestorLine, <<"c">>, TheirsLine, <<"b">>, EndLine>>)

ActionExamples == {T_conflict, T_diff3, T_mixed, T_named, T_multibyte}

ActionUri == "file:///a"

InitActions ==
    /\ ServerIdle /\ ParseIdle /\ ApplyIdle /\ RangeIdle /\ LocksIdle
    /\ c_content \in ParseTexts(MaxActionLines) \cup ActionExamples
    /\ c_version \in Versions
    /\ c_out = NotRun
    /\ c_note = NotRun

\* the stored snapshot is the scan of the content; conflict_as_code_actions
\* is called on each of its conflicts and prepare_diagnostics on the document
RunActions ==
    /\ ~c_out.ran
    /\ \E document_state \in {DocumentState(c_content, c_version, Some(Parse(c_content)))} :
          /\ c_out' = Ran(Returned([k \in 1..Len(document_state.conflicts.val) |->
                            conflict_as_code_actions(document_state.conflicts.val[k],
                                                     ActionUri, document_state)]))
          /\ c_note' = Ran(Returned(prepare_diagnostics(ActionUri, document_state)))
    /\ UNCHANGED <<c_content, c_version, serverVars, parseVars, applyVars, rangeVars, lockVars>>

NextActions == RunActions

SpecActions == InitActions /\ [][NextActions]_vars

(***************************************************************************)
(* SpecRange: Conflict::is_in_range on scanned conflicts and bounded       *)
(* request ranges                                                          *)
(***************************************************************************)
\* bound of the ranges drawn: the greatest line number
MaxRangeLine == 7

\* characters of the positions drawn: the start of a line, inside a marker,
\* the length of a marker without name, one past it
RangeCharacters == {0, 1, MarkerLen, MarkerLen + 1}

RangePositions ==
    {Position(line, character) : line \in 0..MaxRangeLine, character \in RangeCharacters}

\* a block after an ordinary line
T_after_line == JoinLines(<< <<"a">>, OursLine, <<"a">>, TheirsLine, <<"b">>, EndLine >>)

\* the contents whose scanned conflicts are drawn
RangeContents == {T_conflict, T_after_line, T_diff3, T_named}

InitRange ==
    /\ ServerIdle /\ ParseIdle /\ ApplyIdle /\ ActionsIdle /\ LocksIdle
    /\ \E text \in RangeContents : \E k \in 1..Len(Parse(text)) : r_conflict = Parse(text)[k]
    /\ r_range \in {Range(start, end) : start \in RangePositions, end \in RangePositions}
    /\ r_checks \in BOOLEAN
    /\ r_out = NotRun

RunRange ==
    /\ ~r_out.ran
    /\ r_out' = Ran(is_in_range(r_conflict, r_range, r_checks))
    /\ UNCHANGED <<r_conflict, r_range, r_checks, serverVars, parseVars, applyVars, actionVars, lockVars>>

NextRange == RunRange

SpecRange == InitRange /\ [][NextRange]_vars

(***************************************************************************)
(* SpecLocks: the lock and unlock steps of the threads                     *)
(*                                                                         *)
(* Every MutexGuard of the server is a local variable of the function that *)
(* locks, or of the `if let` block that sends: it is dropped when that     *)
(* function returns or that block ends.  A thread is at "documents_wanted" *)
(* or "sender_wanted" while its lock() call waits, at "handler" / "update" *)
(* while it runs with the documents guard and at "sending" while it runs   *)
(* with the sender guard.  A panic of the dispatcher thread in a handler   *)
(* unwinds with the documents guard alive: the mutex is released and       *)
(* poisoned, and lock().unwrap() panics in every thread that locks it      *)
(* afterwards.                                                             *)
(***************************************************************************)
\* the kinds of inbound message by the locks that handle_message takes: a
\* notification routed to on_did_open / on_did_change / on_did_close, a
\* code-action request, a request answered by on_shutdown, and a message for
\* which no lock is taken
MessageKinds == {"notification", "codeAction", "shutdown", "unlocked"}

\* how a handler that holds the documents guard ends: Ok(Some((uri, version)))
\* of a notification handler, Ok(Some(response)) of the code-action handler,
\* Ok(None), or a panic
HandlerOutcomes(kind) ==
    IF kind = "notification" THEN {"spawn", "none", "panic"} ELSE {"reply", "none", "panic"}

\* the end of a function that has a documents or sender guard as a local,
\* with the guard kept alive
guard_dropped_never(holder, thread) == holder

\* the end of a function that has a documents or sender guard as a local:
\* the guard is dropped
guard_dropped(holder, thread) == IF holder = thread THEN Free ELSE holder

InitLocks ==
    /\ ServerIdle /\ ParseIdle /\ ApplyIdle /\ ActionsIdle /\ RangeIdle /\ LocksIdle

\* real_main_loop takes the next message and handle_message matches it
Dispatcher_receive(kind) ==
    /\ k_dispatcher = "receive"
    /\ k_received < MaxLockInbound
    /\ k_received' = k_received + 1
    /\ k_dispatcher' = CASE kind \in {"notification", "codeAction"} -> kind
                         [] kind = "shutdown" -> "sender_wanted"
                         [] OTHER -> "receive"
    /\ UNCHANGED <<k_workers, k_documents, k_sender, k_poisoned,
                   serverVars, parseVars, applyVars, actionVars, rangeVars>>

\* self.documents.lock().unwrap() of a notification handler or of
\* on_code_action_request
Dispatcher_lock_documents ==
    /\ k_dispatcher \in {"notification", "codeAction"}
    /\ k_documents = Free
    /\ k_documents' = Dispatcher
    /\ k_dispatcher' = IF k_dispatcher = "notification"
                       THEN "notification_handler" ELSE "codeAction_handler"
    /\ UNCHANGED <<k_workers, k_sender, k_poisoned, k_received,
                   serverVars, parseVars, applyVars, actionVars, rangeVars>>

\* the handler returns or panics; handle_message spawns the worker for
\* Ok(Some((uri, version))) and goes on to the send for Ok(Some(response))
Dispatcher_return(outcome) ==
    /\ k_dispatcher \in {"notification_handler", "codeAction_handler"}
    /\ outcome \in HandlerOutcomes(IF k_dispatcher = "notification_handler"
                                   THEN "notification" ELSE "codeAction")
    /\ outcome = "spawn" => \E i \in 1..MaxLockWorkers : k_workers[i] = "unspawned"
    /\ k_documents' = guard_dropped(k_documents, Dispatcher)
    /\ k_poisoned' = (k_poisoned \/ outcome = "panic")
    /\ k_dispatcher' = CASE outcome = "panic" -> "panicked"
                         [] outcome = "reply" -> "sender_wanted"
                         [] OTHER -> "receive"
    /\ k_workers' = IF outcome = "spawn"
                    THEN LET i == CHOOSE j \in 1..MaxLockWorkers :
                                     /\ k_workers[j] = "unspawned"
                                     /\ \A m \in 1..(j - 1) : k_workers[m] # "unspawned"
                         IN [k_workers EXCEPT ![i] = "documents_wanted"]
                    ELSE k_workers
    /\ UNCHANGED <<k_sender, k_received,
                   serverVars, parseVars, applyVars, actionVars, rangeVars>>

\* state.sender.lock().unwrap() of the Request arm
Dispatcher_lock_sender ==
    /\ k_dispatcher = "sender_wanted"
    /\ k_sender = Free
    /\ k_sender' = Dispatcher
    /\ k_dispatcher' = "sending"
    /\ UNCHANGED <<k_workers, k_documents, k_poisoned, k_received,
                   serverVars, parseVars, applyVars, actionVars, rangeVars>>

\* sender.send(message.into()) and the end of the `if let` block
Dispatcher_send ==
    /\ k_dispatcher = "sending"
    /\ k_sender' = guard_dropped(k_sender, Dispatcher)
    /\ k_dispatcher' = "receive"
    /\ UNCHANGED <<k_workers, k_documents, k_poisoned, k_received,
                   serverVars, parseVars, applyVars, actionVars, rangeVars>>

\* self.documents.lock().unwrap() of on_document_update; on a poisoned mutex
\* unwrap panics, the guard inside the error is dropped and the thread ends
Worker_lock_documents(i) ==
    /\ k_workers[i] = "documents_wanted"
    /\ k_documents = Free
    /\ IF k_poisoned
       THEN /\ k_workers' = [k_workers EXCEPT ![i] = "panicked"]
            /\ UNCHANGED k_documents
       ELSE /\ k_workers' = [k_workers EXCEPT ![i] = "update"]
            /\ k_documents' = i
    /\ UNCHANGED <<k_dispatcher, k_sender, k_poisoned, k_received,
                   serverVars, parseVars, applyVars, actionVars, rangeVars>>

\* on_document_update returns Ok(Some(notification)) or Ok(None)
Worker_return(i, notification) ==
    /\ k_workers[i] = "update"
    /\ k_documents' = guard_dropped(k_documents, i)
    /\ k_workers' = [k_workers EXCEPT ![i] = IF notification THEN "sender_wanted" ELSE "finished"]
    /\ UNCHANGED <<k_dispatcher, k_sender, k_poisoned, k_received,
                   serverVars, parseVars, applyVars, actionVars, rangeVars>>

\* state.sender.lock().unwrap() of the worker closure
Worker_lock_sender(i) ==
    /\ k_workers[i] = "sender_wanted"
    /\ k_sender = Free
    /\ k_sender' = i
    /\ k_workers' = [k_workers EXCEPT ![i] = "sending"]
    /\ UNCHANGED <<k_dispatcher, k_documents, k_poisoned, k_received,
                   serverVars, parseVars, applyVars, actionVars, rangeVars>>

\* sender.send(message.into()) and the end of the worker closure
Worker_send(i) ==
    /\ k_workers[i] = "sending"
    /\ k_sender' = guard_dropped(k_sender, i)
    /\ k_workers' = [k_workers EXCEPT ![i] = "finished"]
    /\ UNCHANGED <<k_dispatcher, k_documents, k_poisoned, k_received,
                   serverVars, parseVars, applyVars, actionVars, rangeVars>>

\* the steps the dispatcher thread takes once it has a message
DispatcherStep ==
    \/ Dispatcher_lock_documents
    \/ \E outcome \in {"spawn", "none", "reply", "panic"} : Dispatcher_return(outcome)
    \/ Dispatcher_lock_sender
    \/ Dispatcher_send

\* the steps of worker thread i
WorkerStep(i) ==
    \/ Worker_lock_documents(i)
    \/ \E notification \in BOOLEAN : Worker_return(i, notification)
    \/ Worker_lock_sender(i)
    \/ Worker_send(i)

NextLocks ==
    \/ \E kind \in MessageKinds : Dispatcher_receive(kind)
    \/ Dispatcher_lock_documents
    \/ \E outcome \in {"spawn", "none", "reply", "panic"} : Dispatcher_return(outcome)
    \/ Dispatcher_lock_sender
    \/ Dispatcher_send
    \/ \E i \in 1..MaxLockWorkers : Worker_lock_documents(i)
    \/ \E i \in 1..MaxLockWorkers, notification \in BOOLEAN : Worker_return(i, notification)
    \/ \E i \in 1..MaxLockWorkers : Worker_lock_sender(i)
    \/ \E i \in 1..MaxLockWorkers : Worker_send(i)

\* every thread that can take a step eventually takes one; nothing is
\* assumed about the arrival of messages
SpecLocks ==
    /\ InitLocks
    /\ [][NextLocks]_vars
    /\ WF_vars(DispatcherStep)
    /\ \A i \in 1..MaxLockWorkers : WF_vars(WorkerStep(i))

(***************************************************************************)
(* Properties of the server (checked under Spec)                           *)
(***************************************************************************)

\* the last call was on_document_update on a tracked document with an
\* accepted version (version >= stored version)
AcceptedUpdate ==
    /\ lastCall.op = "update"
    /\ lastCall.before.some
    /\ lastCall.version >= lastCall.before.val.version

\* C1: on_document_update on a tracked document with an accepted version
\* returns a notification if and only if (a) the stored snapshot is None or
\* Some([]) and the scan is non-empty, or (b) the stored snapshot is
\* Some(non-empty) and the scan differs from it.
C1_PublishIff ==
    AcceptedUpdate =>
        LET previous == lastCall.before.val.conflicts
            scan == lastCall.scan.val
        IN lastCall.ret.some <=>
              \/ (~previous.some \/ previous.val = <<>>) /\ scan # <<>>
              \/ previous.some /\ previous.val # <<>> /\ scan # previous.val

\* an accepted update found Some(non-empty) stored, scanned the same
\* conflicts again and returned nothing
C1_Witness ==
    /\ AcceptedUpdate
    /\ lastCall.before.val.conflicts.some
    /\ lastCall.before.val.conflicts.val # <<>>
    /\ lastCall.scan.val = lastCall.before.val.conflicts.val
    /\ ~lastCall.ret.some

\* C2: after an accepted on_document_update the stored snapshot follows the
\* decision table: None / empty scan -> None; Some([]) / empty scan -> None;
\* Some(non-empty) / empty scan -> Some([]); a publishing case with a
\* non-empty scan -> Some(scan); Some(non-empty) / equal scan -> unchanged.
C2_StoredSnapshotTable ==
    AcceptedUpdate =>
        LET previous == lastCall.before.val.conflicts
            scan == lastCall.scan.val
            stored == lastCall.after.val.conflicts
        IN /\ lastCall.after.some
           /\ (~previous.some /\ scan = <<>>) => stored = None
           /\ (previous.some /\ previous.val = <<>> /\ scan = <<>>) => stored = None
           /\ (previous.some /\ previous.val # <<>> /\ scan = <<>>) => stored = Some(<<>>)
           /\ (lastCall.ret.some /\ scan # <<>>) => stored = Some(scan)
           /\ (previous.some /\ previous.val # <<>> /\ scan = previous.val) => stored = previous

\* an accepted update found Some([]) stored, scanned nothing and collapsed
\* the stored snapshot to None
C2_Witness ==
    /\ AcceptedUpdate
    /\ lastCall.before.val.conflicts = Some(<<>>)
    /\ lastCall.scan.val = <<>>
    /\ lastCall.after.val.conflicts = None

\* C3: a change event on a tracked document whose version is less than the
\* stored version leaves the stored content unchanged.
C3_StaleChangeIgnored ==
    ( /\ lastCall.op = "didChange"
      /\ lastCall.before.some
      /\ lastCall.version < lastCall.before.val.version )
    => /\ lastCall.after.some
       /\ lastCall.after.val.content = lastCall.before.val.content

\* C4: a worker thread spawned for a URI before a close of that URI was
\* processed changes no document state and publishes no notification when it
\* runs after the close, also when the URI has been opened again.
C4_ClosedWorkerNoOp ==
    /\ (lastCall.op = "update" /\ lastCall.stale)
          => (lastCall.after = lastCall.before /\ ~lastCall.ret.some)
    /\ ~(lastCall.op = "send" /\ lastCall.stale)

\* the last call was the code-action handler on a tracked document with a
\* stored snapshot, and c is the stored conflict it found for the range
CodeActionFound(c) ==
    /\ lastCall.op = "on_code_action_request"
    /\ lastCall.range.some
    /\ lastCall.before.some
    /\ lastCall.before.val.conflicts.some
    /\ \E overflow_checks \in BOOLEAN :
          find_in_range(lastCall.before.val.conflicts.val, lastCall.range.val, overflow_checks)
             = Returned(Some(c))

\* a boundary line of the region has no offset in the content
BoundaryFails(region, content) ==
    \/ ~index_for_position(Position(region.start + 1, 0), content).some
    \/ ~index_for_position(Position(region.end, 0), content).some

\* the kept regions of the actions of a conflict, in the order of the list
KeptRegions(c) ==
    << <<c.ours>>, <<c.theirs>>, <<c.ours, c.theirs>> >>
    \o (IF c.ancestor.some THEN << <<c.ancestor.val>> >> ELSE <<>>)

\* the number of actions of c none of whose kept regions fails in content
Convertible(c, content) ==
    Cardinality({i \in 1..Len(KeptRegions(c)) :
                    \A j \in 1..Len(KeptRegions(c)[i]) :
                        ~BoundaryFails(KeptRegions(c)[i][j], content)})

\* C15: when a code-action request is served from a stale snapshot and a
\* boundary line of a kept region has no offset in the current content, the
\* handler does not panic and returns a response that omits only the actions
\* of the failing regions.
C15_StaleActionOmitted ==
    \A c \in IF lastCall.op = "on_code_action_request" /\ lastCall.before.some
                  /\ lastCall.before.val.conflicts.some
             THEN {lastCall.before.val.conflicts.val[k] :
                      k \in 1..Len(lastCall.before.val.conflicts.val)}
             ELSE {} :
        ( /\ CodeActionFound(c)
          /\ lastCall.before.val.conflicts.val # Parse(lastCall.before.val.content)
          /\ \E i \in 1..Len(KeptRegions(c)) : \E j \in 1..Len(KeptRegions(c)[i]) :
                BoundaryFails(KeptRegions(c)[i][j], lastCall.before.val.content) )
        => /\ lastCall.kind = "ok"
           /\ lastCall.ret.some
           /\ lastCall.ret.val.result.some
           /\ Len(lastCall.ret.val.result.val) = Convertible(c, lastCall.before.val.content)

\* an outbound message is a response (it carries the id of a request)
IsResponse(m) == "id" \in DOMAIN m

\* the positions in outbound of the responses to the request id
ResponsesTo(id) == {i \in 1..Len(outbound) : IsResponse(outbound[i]) /\ outbound[i].id = id}

\* the last call handled a decodable code-action request, and handle_message
\* has sent the reply if there was one
CodeActionRequested ==
    /\ lastCall.method = "textDocument/codeAction"
    /\ lastCall.range.some
    /\ ~reply.some

\* the document of the request is not tracked, has no stored snapshot, or no
\* stored conflict contains the requested range
NothingToOffer ==
    \/ ~lastCall.before.some
    \/ ~lastCall.before.val.conflicts.some
    \/ \A overflow_checks \in BOOLEAN :
          find_in_range(lastCall.before.val.conflicts.val, lastCall.range.val, overflow_checks)
             = Returned(None)

\* C16: a textDocument/codeAction request received before any shutdown
\* request is answered with exactly one response, and with an empty action
\* list when the URI is not tracked, when the document has no stored
\* snapshot, or when no stored conflict contains the requested range.
C16_CodeActionAnswered ==
    (CodeActionRequested /\ ~lastCall.flag)
    => /\ Cardinality(ResponsesTo(lastCall.id)) = 1
       /\ NothingToOffer =>
             \A i \in ResponsesTo(lastCall.id) : outbound[i].result = Some(<<>>)

\* C17: a notification or request whose payload cannot be decoded fails
\* only that message: after it the dispatcher loop is still running, and it
\* ends only when the inbound stream closes.
C17_DecodeErrorNotFatal ==
    (lastCall.kind = "err") => (running /\ ended \in {"no", "closed"})

\* the last call handled a request (requests carry the ids 1, 2, ..)
RequestHandled == lastCall.id > 0

\* the reply of on_shutdown to the request id
ShutdownReply(id) ==
    Response_new_err(id, InvalidRequest, "Shutdown already requested.")

\* once a shutdown request has been handled the flag is set and stays set
FlagSticky == (lastCall.flag \/ lastCall.op = "on_shutdown") => shutdown_requested

\* the first shutdown request and every request handled after it is served
\* by on_shutdown and answered with exactly one shutdown reply
ShutdownReplies ==
    (RequestHandled /\ ~reply.some /\ (lastCall.flag \/ lastCall.method = "shutdown"))
    => /\ lastCall.op = "on_shutdown"
       /\ Cardinality(ResponsesTo(lastCall.id)) = 1
       /\ \A i \in ResponsesTo(lastCall.id) : outbound[i] = ShutdownReply(lastCall.id)

\* C18: once a shutdown request has been handled, shutdown_requested stays
\* true, the first shutdown request and every request after it, whatever its
\* method, is answered with exactly one shutdown reply and never reaches the
\* code-action handler, and the loop ends only when the inbound stream closes.
C18_ShutdownSession ==
    /\ FlagSticky
    /\ ShutdownReplies
    /\ shutdown_requested => (running /\ ended \in {"no", "closed"})

\* C19: the first shutdown request of a session is answered with a success
\* acknowledgement, and an error response is sent only to a request that
\* arrives when shutdown has already been requested.
C19_FirstShutdownAcknowledged ==
    /\ (RequestHandled /\ lastCall.method = "shutdown" /\ ~lastCall.flag)
          => /\ lastCall.ret.some
             /\ lastCall.ret.val.result.some
             /\ ~lastCall.ret.val.error.some
    /\ (RequestHandled /\ lastCall.ret.some /\ lastCall.ret.val.error.some)
          => lastCall.flag

\* C20: after a shutdown request has been handled, an open, change or close
\* notification changes no entry of the document store and spawns no reparse
\* worker.
C20_NoWorkAfterShutdown ==
    (lastCall.op \in {"didOpen", "didChange", "didClose"} /\ lastCall.flag)
    => /\ lastCall.after = lastCall.before
       /\ ~lastCall.ret.some

\* C21: no thread holds the lock of the documents while the marker scanner
\* runs: a reparse worker that is at the call of Parser::parse has released
\* the lock it took to read the entry, and takes it again only to store the
\* result.
C21_NoLockAcrossParse ==
    \A i \in 1..Len(threads) : threads[i].pc = "parse" => lock = "free"

\* the last call was on_did_change_text_document on a tracked document, with
\* a version not less than the stored one, and it returned
AcceptedChange ==
    /\ lastCall.op = "didChange"
    /\ lastCall.before.some
    /\ lastCall.ret.some
    /\ lastCall.version >= lastCall.before.val.version

\* C22: when the dispatcher has finished handling an accepted change event,
\* and before any reparse worker has run, the stored version of the document
\* equals the version carried by the event.
C22_ChangeStoresVersion ==
    AcceptedChange => lastCall.after.val.version = lastCall.version

\* C23: on_did_change_text_document on a tracked document modifies only the
\* content: when it returns, the stored version and the stored conflict
\* snapshot are what they were before the call, and it returns the (uri,
\* version) pair of the event.
C23_ChangeModifiesContentOnly ==
    (lastCall.op = "didChange" /\ lastCall.before.some /\ lastCall.kind # "panic")
    => /\ lastCall.after.some
       /\ lastCall.after.val.version = lastCall.before.val.version
       /\ lastCall.after.val.conflicts = lastCall.before.val.conflicts
       /\ lastCall.ret = Some(<<lastCall.uri, lastCall.version>>)

\* a change event with another version than the stored one changed the
\* content of a document that has a stored snapshot with a conflict
C23_Witness ==
    /\ lastCall.op = "didChange"
    /\ lastCall.before.some
    /\ lastCall.ret.some
    /\ lastCall.before.val.conflicts.some
    /\ lastCall.before.val.conflicts.val # <<>>
    /\ lastCall.version # lastCall.before.val.version
    /\ lastCall.after.val.content # lastCall.before.val.content

\* C24: on_did_open_text_document creates, for an untracked URI, a document
\* state with the content and the version of the event and conflicts = None;
\* for a tracked URI it leaves content, version and snapshot unchanged; in
\* both cases it returns the (uri, version) pair of the event.
C24_OpenCreatesOrKeeps ==
    lastCall.op = "didOpen"
    => /\ lastCall.ret = Some(<<lastCall.uri, lastCall.version>>)
       /\ lastCall.after = IF lastCall.before.some
                           THEN lastCall.before
                           ELSE Some(DocumentState(lastCall.text, lastCall.version, None))

\* an open event with another text and another version arrived for a tracked
\* document that has a stored snapshot, and the entry was kept
C24_Witness ==
    /\ lastCall.op = "didOpen"
    /\ lastCall.before.some
    /\ lastCall.before.val.conflicts.some
    /\ lastCall.text # lastCall.before.val.content
    /\ lastCall.version # lastCall.before.val.version
    /\ lastCall.after = lastCall.before

\* C25: on_document_update called with a version less than the stored one
\* leaves the stored version and the stored snapshot unchanged, makes no scan
\* and returns no notification; a version equal to or greater than the
\* stored one is accepted: the scan is made and the version becomes the
\* stored version.
C25_VersionTest ==
    (lastCall.op = "update" /\ lastCall.before.some)
    => IF lastCall.version < lastCall.before.val.version
       THEN /\ lastCall.after = lastCall.before
            /\ ~lastCall.scan.some
            /\ ~lastCall.ret.some
       ELSE /\ lastCall.scan.some
            /\ lastCall.after.some
            /\ lastCall.after.val.version = lastCall.version

\* a worker with a version less than the stored one found a content whose
\* scan differs from the stored snapshot, and returned without notification
C25_Witness ==
    /\ lastCall.op = "update"
    /\ lastCall.before.some
    /\ lastCall.version < lastCall.before.val.version
    /\ needs_update(lastCall.before.val.conflicts, Parse(lastCall.before.val.content))
    /\ lastCall.after = lastCall.before
    /\ ~lastCall.ret.some

\* C26: for a document whose stored snapshot is current and has a conflict,
\* a change whose edits touch only lines outside the marker span of every
\* conflict, followed by its reparse, produces no diagnostics notification.
C26_OutsideEditSilent ==
    (lastCall.op = "update" /\ lastCall.outside) => ~lastCall.ret.some

\* C29: in every code-action response an action is marked preferred only
\* if it is the only action of the returned list.
C29_PreferredOnlyIfSole ==
    ( /\ lastCall.op = "on_code_action_request"
      /\ lastCall.ret.some
      /\ lastCall.ret.val.result.some )
    => \A i \in 1..Len(lastCall.ret.val.result.val) :
          lastCall.ret.val.result.val[i].is_preferred = Some(TRUE)
             => Len(lastCall.ret.val.result.val) = 1

\* C30: under every interleaving of the dispatcher with the reparse
\* workers, the content of a tracked document is the content it had at open
\* with the edit batches of the change events handled since applied to it in
\* arrival order; the workers never modify the content.
C30_ContentIsFoldOfEdits ==
    \A uri \in DOMAIN documents : documents[uri].content = folded[uri]

\* two insertions at the start of the document were applied one after the
\* other, a reparse worker stored a snapshot and another one has not run yet
C30_Witness ==
    \E uri \in DOMAIN documents :
        /\ Len(documents[uri].content) > 4
        /\ SubSeq(documents[uri].content, 1, 4) = <<"x", NL, "x", NL>>
        /\ documents[uri].conflicts.some
        /\ \E i \in 1..Len(threads) : threads[i].uri = uri /\ threads[i].pc = "update"

\* the last call was a reparse (on_document_update by a worker thread) of a
\* tracked document whose content holds no conflict
ReparseOfConflictFree ==
    /\ lastCall.op = "update"
    /\ lastCall.before.some
    /\ Parse(lastCall.before.val.content) = <<>>

\* C33: for a document whose diagnostics are non-empty (stored snapshot
\* Some(non-empty)) and whose content holds no conflict any more, the first
\* reparse returns one notification with an empty diagnostics list and stores
\* Some([]); a further reparse of conflict-free content returns no
\* notification and leaves None stored.
C33_ClearedOnce ==
    ReparseOfConflictFree =>
        LET previous == lastCall.before.val.conflicts
        IN /\ lastCall.after.some
           /\ IF previous.some /\ previous.val # <<>>
              THEN /\ lastCall.ret.some
                   /\ lastCall.ret.val.diagnostics = <<>>
                   /\ lastCall.after.val.conflicts = Some(<<>>)
              ELSE /\ ~lastCall.ret.some
                   /\ lastCall.after.val.conflicts = None

\* the conflicts a stored snapshot stands for: None and Some([]) are both
\* "no conflicts"
SnapshotConflicts(snapshot) == IF snapshot.some THEN snapshot.val ELSE <<>>

\* no worker thread spawned for uri is pending or running
Quiescent(uri) == \A i \in 1..Len(threads) : threads[i].uri # uri

\* C34: quiescent consistency: while the dispatcher runs, whenever no
\* reparse worker is pending or running for a tracked document, its stored
\* snapshot equals the scan of its current content, None and Some([]) both
\* counting as no conflicts.
C34_QuiescentConsistency ==
    running =>
        \A uri \in DOMAIN documents :
            Quiescent(uri)
                => SnapshotConflicts(documents[uri].conflicts) = Parse(documents[uri].content)

\* C35: for each URI the diagnostics notifications are sent on the outbound
\* channel in the order in which the workers computed them under the
\* documents lock: when one is sent, no notification of the same URI computed
\* before it is still waiting to be sent.
C35_SentInComputedOrder ==
    lastCall.op = "send" =>
        \A i \in 1..Len(threads) :
            (threads[i].pc = "send" /\ threads[i].uri = lastCall.uri)
                => threads[i].seq > lastCall.seq

\* C36: a diagnostics notification that carries version v for a URI lists
\* exactly the conflicts of the content the document had right after the
\* open or change event with version v was handled: the notification a worker
\* computes carries the version of the event that spawned it and the
\* diagnostics of the scan of that event's content (checked under SpecScans,
\* where the threads record that scan).
C36_VersionOfParsedContent ==
    (recording /\ lastCall.op = "update" /\ lastCall.ret.some) =>
        /\ lastCall.ret.val.version = lastCall.version
        /\ lastCall.ret.val.diagnostics =
              [k \in 1..Len(lastCall.applied) |-> Diagnostic_from(lastCall.applied[k])]

\* C37: from the open event that creates a document entry to the close event
\* that removes it, the stored version never decreases: no step of the
\* dispatcher or of a worker lowers the version of an entry it keeps.
C37_VersionMonotone ==
    [][\A uri \in DOMAIN documents \cap DOMAIN documents' :
           documents'[uri].version >= documents[uri].version]_vars

\* a worker whose version is below the stored one has run on an entry that
\* was never closed, and the stored version is unchanged
C37_Witness ==
    /\ lastCall.op = "update"
    /\ lastCall.before.some
    /\ lastCall.after.some
    /\ closes[lastCall.uri] = 0
    /\ lastCall.version < lastCall.before.val.version
    /\ lastCall.after.val.version = lastCall.before.val.version

(***************************************************************************)
(* Properties of apply_changes (checked under SpecApply)                   *)
(***************************************************************************)
Without(es, k) == SubSeq(es, 1, k - 1) \o SubSeq(es, k + 1, Len(es))

\* C5: apply_changes(content, edits) equals the left fold over the edits in
\* array order, each edit applied to the result of the previous one: no range
\* replaces the whole content, a range replaces the bytes between the offsets
\* of its positions computed against the already-updated content.
C5_SequentialFold ==
    (a_out.ran /\ ~a_out.panic) => a_out.val = LeftFold(a_content, a_changes)

\* two ranged edits were applied, the second on a later line whose offset the
\* first one moved
C5_Witness ==
    /\ a_out.ran /\ ~a_out.panic
    /\ Len(a_changes) = 2
    /\ a_changes[1].range.some /\ a_changes[2].range.some
    /\ a_changes[2].range.val.start.line > 0
    /\ ~LineMissing(a_content, a_changes[2].range.val.end)
    /\ Len(apply_changes(a_content, <<a_changes[1]>>).val) # Len(a_content)
    /\ a_out.val # apply_changes(a_content, <<a_changes[1]>>).val

\* the positions of a ranged edit lie outside content c: a line beyond the
\* last line, a character beyond the end of the content, or end before start
EditOutside(e, c) ==
    /\ e.range.some
    /\ LET start == e.range.val.start
           end == e.range.val.end
       IN \/ LineMissing(c, start) \/ LineMissing(c, end)
          \/ OffsetOf(c, start) > Len(c) \/ OffsetOf(c, end) > Len(c)
          \/ end.line < start.line
          \/ end.line = start.line /\ end.character < start.character

\* C6: an edit whose start or end position lies outside the document makes
\* apply_changes neither panic nor change anything: the result is what the
\* other edits of the batch produce.
C6_OutOfRangeNoOp ==
    a_out.ran =>
        \A k \in 1..Len(a_changes) :
            LET pre == apply_changes(a_content, SubSeq(a_changes, 1, k - 1))
            IN (~pre.panic /\ EditOutside(a_changes[k], pre.val))
                  => /\ ~a_out.panic
                     /\ a_out.val = apply_changes(a_content, Without(a_changes, k)).val

\* C7: an edit whose start or end line is greater than the number of
\* newlines of the current content is skipped, and every later edit of the
\* batch is applied to the unchanged intermediate content.
C7_MissingLineSkipped ==
    a_out.ran =>
        \A k \in 1..Len(a_changes) :
            LET pre == apply_changes(a_content, SubSeq(a_changes, 1, k - 1))
                e == a_changes[k]
            IN ( /\ ~pre.panic
                 /\ e.range.some
                 /\ (LineMissing(pre.val, e.range.val.start) \/ LineMissing(pre.val, e.range.val.end)) )
               => /\ apply_changes(a_content, SubSeq(a_changes, 1, k)) = Returned(pre.val)
                  /\ a_out = Ran(apply_changes(pre.val, SubSeq(a_changes, k + 1, Len(a_changes))))

\* the first edit of a batch of two was on a missing line and carried text,
\* and the second one was applied and changed the content
C7_Witness ==
    /\ a_out.ran /\ ~a_out.panic
    /\ Len(a_changes) = 2
    /\ a_changes[1].range.some
    /\ LineMissing(a_content, a_changes[1].range.val.start)
    /\ a_changes[1].text # <<>>
    /\ a_changes[2].range.some
    /\ a_out.val # a_content

(***************************************************************************)
(* Properties of Parser::parse (checked under SpecParse)                   *)
(***************************************************************************)

\* the lines of a text: line L (0-based) starts at offset 0 or one past the
\* L-th newline
LineStartOffset(text, L) ==
    IF L = 0 THEN 0
    ELSE CHOOSE q \in 1..Len(text) :
            text[q] = NL /\ Cardinality({i \in 1..q : text[i] = NL}) = L

\* line L of text exists and begins with seven bytes tok
IsMarkerLine(text, L, tok) ==
    /\ L <= NewlineCount(text)
    /\ LET p == LineStartOffset(text, L)
       IN /\ p + MarkerLen <= Len(text)
          /\ \A i \in 1..MarkerLen : text[p + i] = tok

\* C8: every conflict returned by Parser::parse satisfies
\* ours.start < ours.end <= theirs.start < theirs.end.
C8_RegionOrder ==
    p_out.ran =>
        \A k \in 1..Len(p_out.val) :
            LET c == p_out.val[k]
            IN /\ c.ours.start < c.ours.end
               /\ c.ours.end <= c.theirs.start
               /\ c.theirs.start < c.theirs.end

\* C9: the conflicts returned by Parser::parse are in ascending document
\* order and do not overlap: consecutive c1, c2 have c1.theirs.end < c2.ours.start.
C9_AscendingDisjoint ==
    p_out.ran =>
        \A k \in 1..(Len(p_out.val) - 1) :
            p_out.val[k].theirs.end < p_out.val[k + 1].ours.start

\* C10: a conflict returned by Parser::parse has an ancestor region if and
\* only if an ancestor-open marker line lies between its own ours-open line
\* and its own theirs-open line, and then the ancestor is that marker.
C10_AncestorIffOwnMarker ==
    p_out.ran =>
        \A k \in 1..Len(p_out.val) :
            LET c == p_out.val[k]
                between == {L \in (c.ours.start + 1)..(c.theirs.start - 1) :
                               IsMarkerLine(p_text, L, "|")}
            IN /\ c.ancestor.some <=> between # {}
               /\ c.ancestor.some => c.ancestor.val.start \in between

\* the kind of line L of text: the byte of the marker token it begins with,
\* "." for any other line
LineKind(text, L) ==
    IF IsMarkerLine(text, L, "<") THEN "<"
    ELSE IF IsMarkerLine(text, L, "|") THEN "|"
    ELSE IF IsMarkerLine(text, L, "=") THEN "="
    ELSE IF IsMarkerLine(text, L, ">") THEN ">"
    ELSE "."

RECURSIVE WellFormedFrom(_, _, _)
\* the lines of text from line L on are ordinary lines and complete blocks
\* (ours-open, optional ancestor-open, theirs-open, end, in this order, with
\* ordinary lines between them), entered in state st
WellFormedFrom(text, L, st) ==
    IF L > NewlineCount(text) THEN st = "scan"
    ELSE LET kind == LineKind(text, L)
             next == IF kind = "." THEN st
                     ELSE IF st = "scan" /\ kind = "<" THEN "ours"
                     ELSE IF st = "ours" /\ kind = "|" THEN "ancestor"
                     ELSE IF st \in {"ours", "ancestor"} /\ kind = "=" THEN "theirs"
                     ELSE IF st = "theirs" /\ kind = ">" THEN "scan"
                     ELSE "bad"
         IN next # "bad" /\ WellFormedFrom(text, L + 1, next)

WellFormed(text) == WellFormedFrom(text, 0, "scan")

\* the offset one past the last byte of line L (the offset of its newline, or
\* the length of the text)
LineEndOffset(text, L) ==
    IF L >= NewlineCount(text) THEN Len(text) ELSE LineStartOffset(text, L + 1) - 1

\* text with line L (without its newline) replaced by the bytes of line
ReplaceLine(text, L, line) ==
    LET p == IF L = 0 THEN 0 ELSE LineStartOffset(text, L)
    IN Slice(text, 0, p) \o line \o Slice(text, LineEndOffset(text, L), Len(text))

\* line L of text is an ours-open marker line added to a document of ordinary
\* lines and well-formed blocks
UnterminatedOursAt(text, L) ==
    /\ L <= NewlineCount(text)
    /\ IsMarkerLine(text, L, "<")
    /\ WellFormed(ReplaceLine(text, L, <<"a">>))

\* C11: for a document made of well-formed conflict blocks plus one
\* unterminated ours-open marker line, wherever it is placed, Parser::parse
\* returns the conflicts it returns when that line is ordinary text.
C11_UnterminatedIgnored ==
    p_out.ran =>
        \A L \in 0..NewlineCount(p_text) :
            UnterminatedOursAt(p_text, L)
                => p_out.val = Parse(ReplaceLine(p_text, L, <<"a">>))

\* the 0-based numbers of the lines of text that begin with the token tok,
\* ascending
MarkerLines(text, tok) ==
    SortedSeq({L \in 0..NewlineCount(text) : IsMarkerLine(text, L, tok)})

\* the name of marker line L: its bytes after the token, trimmed, as an Option
NameOfLine(text, L) ==
    LET p == IF L = 0 THEN 0 ELSE LineStartOffset(text, L)
        rest == trim(Slice(text, p + MarkerLen, LineEndOffset(text, L)))
    IN IF rest = <<>> THEN None ELSE Some(rest)

\* C12: Parser::parse pairs markers positionally: it returns as many
\* conflicts as the least of the counts of ours-open, theirs-open and end
\* marker lines, and the k-th conflict has the line numbers of the k-th
\* ours-open, theirs-open and end lines and the trimmed names of the k-th
\* ours-open and end lines (None when empty).
C12_PositionalPairing ==
    p_out.ran =>
        LET ours == MarkerLines(p_text, "<")
            theirs == MarkerLines(p_text, "=")
            ends == MarkerLines(p_text, ">")
        IN /\ Len(p_out.val) = Min(Len(ours), Min(Len(theirs), Len(ends)))
           /\ \A k \in 1..Len(p_out.val) :
                 LET c == p_out.val[k]
                 IN /\ c.ours.start = ours[k]
                    /\ c.theirs.start = theirs[k]
                    /\ c.theirs.end = ends[k]
                    /\ c.ours.name = NameOfLine(p_text, ours[k])
                    /\ c.theirs.name = NameOfLine(p_text, ends[k])

\* C32: for every text, texts with characters of more than one byte
\* included, each line number Parser::parse reports for a marker is the
\* 0-based number of the line that holds the marker (the number of newlines
\* before it): the k-th conflict has the numbers of the k-th ours-open,
\* theirs-open and end marker lines and, with an ancestor, of the k-th
\* ancestor-open marker line.
C32_MarkerLineNumbers ==
    p_out.ran =>
        \A k \in 1..Len(p_out.val) :
            LET c == p_out.val[k]
            IN /\ c.ours.start = MarkerLines(p_text, "<")[k]
               /\ c.theirs.start = MarkerLines(p_text, "=")[k]
               /\ c.theirs.end = MarkerLines(p_text, ">")[k]
               /\ c.ancestor.some => c.ancestor.val.start = MarkerLines(p_text, "|")[k]

\* C13: every conflict returned by Parser::parse has ours.end = theirs.start
\* when it has no ancestor, and ours.end = ancestor.start and
\* ancestor.end = theirs.start when it has one.
C13_RegionsAbut ==
    p_out.ran =>
        \A k \in 1..Len(p_out.val) :
            LET c == p_out.val[k]
            IN IF c.ancestor.some
               THEN c.ours.end = c.ancestor.val.start /\ c.ancestor.val.end = c.theirs.start
               ELSE c.ours.end = c.theirs.start

\* the scan returned a conflict with an ancestor whose three regions are not
\* empty, and a conflict without ancestor
C13_Witness ==
    /\ p_out.ran
    /\ \E k \in 1..Len(p_out.val) :
          LET c == p_out.val[k]
          IN /\ c.ancestor.some
             /\ c.ours.start < c.ancestor.val.start
             /\ c.ancestor.val.start < c.theirs.start
             /\ c.theirs.start < c.theirs.end
    /\ \E k \in 1..Len(p_out.val) : ~p_out.val[k].ancestor.some

(***************************************************************************)
(* Properties of conflict_as_code_actions (checked under SpecActions)      *)
(***************************************************************************)

\* line L of text with its newline
LineWithNewline(text, L) ==
    Slice(text, IF L = 0 THEN 0 ELSE LineStartOffset(text, L),
          IF L >= NewlineCount(text) THEN Len(text) ELSE LineStartOffset(text, L + 1))

RECURSIVE LinesFromTo(_, _, _)
\* the lines from .. to of text, with their newlines
LinesFromTo(text, from, to) ==
    IF from > to THEN <<>>
    ELSE LineWithNewline(text, from) \o LinesFromTo(text, from + 1, to)

\* the content lines of a region: the lines region.start + 1 .. region.end - 1
ContentLines(text, region) == LinesFromTo(text, region.start + 1, region.end - 1)

\* C14: for a stored conflict scanned from the current content,
\* conflict_as_code_actions returns three actions (keep ours, keep theirs,
\* keep both) and a fourth (keep ancestor) exactly when the conflict has an
\* ancestor; the single edit of every action replaces the range from
\* (ours.start, 0) to (theirs.end + 1, 0) with the content lines of the kept
\* regions in order (keep both: the ours lines, then the theirs lines).
C14_ActionsOfConflict ==
    c_out.ran =>
        \A k \in 1..Len(c_out.val) :
            LET c == Parse(c_content)[k]
                out == c_out.val[k]
                expected == << ContentLines(c_content, c.ours),
                               ContentLines(c_content, c.theirs),
                               ContentLines(c_content, c.ours) \o ContentLines(c_content, c.theirs) >>
                            \o (IF c.ancestor.some
                                THEN << ContentLines(c_content, c.ancestor.val) >>
                                ELSE <<>>)
            IN /\ ~out.panic
               /\ Len(out.val) = Len(expected)
               /\ \A i \in 1..Len(out.val) :
                     /\ Len(out.val[i].edit.edits) = 1
                     /\ out.val[i].edit.edits[1].range
                           = Range(Position(c.ours.start, 0), Position(c.theirs.end + 1, 0))
                     /\ out.val[i].edit.edits[1].new_text = expected[i]

(***************************************************************************)
(* Properties of prepare_diagnostics (checked under SpecActions)           *)
(***************************************************************************)

\* C27: the notification built by prepare_diagnostics has one diagnostic per
\* stored conflict, in the stored order, each with the range from
\* (ours.start, 0) to (theirs.end + 1, 0), and carries the stored version of
\* the document.
C27_DiagnosticsOfSnapshot ==
    c_note.ran =>
        LET stored == Parse(c_content)
        IN /\ c_note.val.some
           /\ c_note.val.val.version = c_version
           /\ Len(c_note.val.val.diagnostics) = Len(stored)
           /\ \A k \in 1..Len(stored) :
                 c_note.val.val.diagnostics[k].range
                    = Range(Position(stored[k].ours.start, 0),
                            Position(stored[k].theirs.end + 1, 0))

\* a notification was built for a document of version 1 with two stored
\* conflicts on different lines
C27_Witness ==
    /\ c_note.ran
    /\ c_note.val.some
    /\ c_version = 1
    /\ Len(c_note.val.val.diagnostics) = 2
    /\ c_note.val.val.diagnostics[1].range.end.line
          <= c_note.val.val.diagnostics[2].range.start.line

(***************************************************************************)
(* Properties of Conflict::is_in_range (checked under SpecRange)           *)
(***************************************************************************)

\* a request range whose start is not after its end
WellFormedRange(range) == PositionGe(range.end, range.start)

\* the range starts on a line of the marker span [ours.start, theirs.end] of
\* the conflict and ends on a line of the span or at character 0 of the line
\* after it
LineSpanContains(conflict, range) ==
    /\ conflict.ours.start <= range.start.line
    /\ range.start.line <= conflict.theirs.end
    /\ \/ conflict.ours.start <= range.end.line /\ range.end.line <= conflict.theirs.end
       \/ range.end = Position(conflict.theirs.end + 1, 0)

\* C28: Conflict::is_in_range is line-span containment: for every conflict
\* and every well-formed request range it returns true if and only if the
\* range starts on a line within [ours.start, theirs.end] and ends on a line
\* within that span or at character 0 of line theirs.end + 1.
C28_LineSpanContainment ==
    (r_out.ran /\ WellFormedRange(r_range))
    => /\ ~r_out.panic
       /\ r_out.val = LineSpanContains(r_conflict, r_range)

\* C39: Conflict::is_in_range performs no unsigned subtraction that
\* underflows: for every conflict and every request range, the empty range at
\* line 0, character 0 in a conflict that starts at line 0 included, it
\* evaluates end.line - 1 only with end.line >= 1, and so it never panics.
C39_NoUnderflow ==
    r_out.ran =>
        /\ evaluates_line_minus_one(r_conflict, r_range) => r_range.end.line >= 1
        /\ ~r_out.panic

(***************************************************************************)
(* Properties of parse of src/lib/parser.rs (checked under SpecParse)      *)
(***************************************************************************)

\* the 0-based numbers of the lines of ls that begin with seven bytes tok
PrefixedLines(ls, tok) ==
    {L \in 0..(Len(ls) - 1) :
        Len(ls[L + 1]) >= MarkerLen /\ \A i \in 1..MarkerLen : ls[L + 1][i] = tok}

\* the 0-based numbers of the lines of ls that are exactly "======="
SeparatorLines(ls) == {L \in 0..(Len(ls) - 1) : ls[L + 1] = Rep("=", MarkerLen)}

\* the least member of S that is at least from, as an Option
FirstFrom(S, from) ==
    LET T == {x \in S : x >= from}
    IN IF T = {} THEN None ELSE Some(CHOOSE x \in T : \A y \in T : x <= y)

\* the block that opens at the first head line from line `from` on: its head,
\* the first separator line after the head, the first end line after that
\* separator, and the first ancestor line after the head when it comes
\* before the separator; `open` when the separator or the end is missing,
\* `none` when no head line is left
BlockFrom(ls, from) ==
    LET h == FirstFrom(PrefixedLines(ls, "<"), from)
        b == IF h.some THEN FirstFrom(SeparatorLines(ls), h.val + 1) ELSE None
        e == IF b.some THEN FirstFrom(PrefixedLines(ls, ">"), b.val + 1) ELSE None
        a == IF b.some THEN FirstFrom(PrefixedLines(ls, "|"), h.val + 1) ELSE None
    IN [none |-> ~h.some,
        open |-> h.some /\ ~e.some,
        region |-> IF e.some
                   THEN [head |-> h.val, branch |-> b.val, end |-> e.val,
                         ancestor |-> IF a.some /\ a.val < b.val THEN a ELSE None]
                   ELSE <<>>]

RECURSIVE OpenAtEnd(_, _)
\* reading ls from line `from` on, block after block, ends inside a block
OpenAtEnd(ls, from) ==
    LET blk == BlockFrom(ls, from)
    IN IF blk.none THEN FALSE
       ELSE IF blk.open THEN TRUE
       ELSE OpenAtEnd(ls, blk.region.end + 1)

RECURSIVE CompleteBlocks(_, _)
\* the complete blocks of ls from line `from` on, in order
CompleteBlocks(ls, from) ==
    LET blk == BlockFrom(ls, from)
    IN IF blk.none \/ blk.open THEN <<>>
       ELSE <<blk.region>> \o CompleteBlocks(ls, blk.region.end + 1)

\* C31: parse of src/lib/parser.rs returns an error if and only if the input
\* ends while a conflict is still open, and then returns no conflict even
\* when complete conflicts preceded the open one; when the input ends outside
\* a conflict it returns None if no conflict was found and the list of the
\* conflicts otherwise.
C31_ErrorIffUnterminated ==
    l_out.ran =>
        LET ls == lines(p_text)
            r == l_out.val
        IN /\ r.err <=> OpenAtEnd(ls, 0)
           /\ r.err => r.val = <<>>
           /\ ~r.err =>
                 IF CompleteBlocks(ls, 0) = <<>> THEN r.val = None
                 ELSE r.val.some /\ r.val.val.conflicts = CompleteBlocks(ls, 0)

\* parse returned an error for a text that holds a complete conflict before
\* the open one
C31_Witness ==
    /\ l_out.ran
    /\ l_out.val.err
    /\ CompleteBlocks(lines(p_text), 0) # <<>>

\* the regions parse returned: those of Ok(Some(..)), none otherwise
ReturnedRegions ==
    IF l_out.ran /\ ~l_out.val.err /\ l_out.val.val.some
    THEN l_out.val.val.val.conflicts ELSE <<>>

\* C40: every region returned by parse of src/lib/parser.rs satisfies
\* head < branch < end and, with an ancestor, head < ancestor < branch; the
\* regions are in strictly ascending order and do not overlap (the end of one
\* is less than the head of the next); a marker line met where it is not
\* expected is ordinary text: each region is made of the first head line
\* after the region before it, the first separator line after that head, the
\* first end line after that separator, and the first ancestor line after
\* the head when it comes before the separator.
C40_LibRegionOrder ==
    LET ls == lines(p_text)
        rs == ReturnedRegions
    IN \A k \in 1..Len(rs) :
          /\ rs[k].head < rs[k].branch
          /\ rs[k].branch < rs[k].end
          /\ rs[k].ancestor.some =>
                rs[k].head < rs[k].ancestor.val /\ rs[k].ancestor.val < rs[k].branch
          /\ k < Len(rs) => rs[k].end < rs[k + 1].head
          /\ rs[k] = BlockFrom(ls, IF k = 1 THEN 0 ELSE rs[k - 1].end + 1).region

\* parse returned two regions, one with an ancestor, for a text that has a
\* marker line which is the head, ancestor, branch or end of no region
C40_Witness ==
    LET rs == ReturnedRegions
        used == UNION {{rs[k].head, rs[k].branch, rs[k].end} \cup
                       (IF rs[k].ancestor.some THEN {rs[k].ancestor.val} ELSE {}) :
                       k \in 1..Len(rs)}
        ls == lines(p_text)
    IN /\ Len(rs) = 2
       /\ \E k \in 1..2 : rs[k].ancestor.some
       /\ \E L \in PrefixedLines(ls, "<") \cup PrefixedLines(ls, ">") \cup SeparatorLines(ls) :
             L \notin used

(***************************************************************************)
(* Properties of the locks (checked under SpecLocks)                       *)
(***************************************************************************)

\* the threads: the dispatcher and the workers
LockThreads == {Dispatcher} \cup (1..MaxLockWorkers)

\* the position of a thread
PositionOf(t) == IF t = Dispatcher THEN k_dispatcher ELSE k_workers[t]

\* thread t waits in lock() of the documents mutex / of the sender mutex
WantsDocuments(t) == PositionOf(t) \in {"documents_wanted", "notification", "codeAction"}

WantsSender(t) == PositionOf(t) = "sender_wanted"

\* no thread requests one of the two locks while it holds the other
NoNestedRequest ==
    \A t \in LockThreads :
        /\ WantsSender(t) => k_documents # t
        /\ WantsDocuments(t) => k_sender # t

\* C38: the dispatcher and the reparse workers cannot deadlock: no thread
\* requests the sender lock while it holds the documents lock, nor the
\* documents lock while it holds the sender lock, and every lock request is
\* eventually answered when every thread that can step eventually steps.
C38_NoDeadlock ==
    /\ []NoNestedRequest
    /\ \A t \in LockThreads :
          /\ WantsDocuments(t) ~> ~WantsDocuments(t)
          /\ WantsSender(t) ~> ~WantsSender(t)

\* the dispatcher holds the documents lock in a handler while one worker
\* waits for that lock and another worker waits for the sender lock, which
\* the dispatcher does not hold
C38_Witness ==
    /\ k_documents = Dispatcher
    /\ \E i \in 1..MaxLockWorkers : WantsDocuments(i)
    /\ \E i \in 1..MaxLockWorkers : WantsSender(i)

====
